---- MODULE Spec2Model ----
(***************************************************************************)
(* Flow interpreter and user-context state machine of the bot builder      *)
(* (core/flow-types.ts, core/user-context.ts, core/flow-engine.ts).        *)
(*                                                                         *)
(* One external actor.  Every public operation of FlowEngine is one action *)
(* that runs the whole handler; the saves, sends, internal calls and step  *)
(* executions it makes are recorded, in order, in the variable `trace`.    *)
(***************************************************************************)
EXTENDS Integers, Sequences, FiniteSets, TLC

(***************************************************************************)
(* JavaScript values: undefined, null, strings, numbers and plain objects. *)
(***************************************************************************)
Undef == [t |-> "undef"]
JNull == [t |-> "null"]
Str(s) == [t |-> "str", s |-> s]
Num(n) == [t |-> "num", n |-> n]
Obj(f) == [t |-> "obj", f |-> f]
EmptyObj == Obj([k \in {} |-> Undef])

Truthy(v) ==
  CASE v.t = "undef" -> FALSE
    [] v.t = "null" -> FALSE
    [] v.t = "str" -> v.s # ""
    [] v.t = "num" -> v.n # 0
    [] v.t = "bool" -> v.b
    [] OTHER -> TRUE

\* obj[key] on a plain object; a property of undefined/null read through ?. and
\* an absent property are both undefined.
Prop(v, key) ==
  IF v.t = "obj" /\ key \in DOMAIN v.f THEN v.f[key] ELSE Undef

\* `number | null` fields of the context (topicId, adminChatId, targetUserId)
Null == 0 - 1
TruthyNum(n) == n # Null /\ n # 0

(***************************************************************************)
(* Strings                                                                 *)
(***************************************************************************)
CharAt(s, i) == SubSeq(s, i, i)
StartsWith(s, p) == Len(s) >= Len(p) /\ SubSeq(s, 1, Len(p)) = p
\* s.substring(from) with a 0-based start
Substring(s, from) == SubSeq(s, from + 1, Len(s))
\* s.substring(0, n)
SubstringTo(s, n) == SubSeq(s, 1, IF n < Len(s) THEN n ELSE Len(s))

MinOf(S) == CHOOSE x \in S : \A y \in S : x <= y
MaxOf(S) == CHOOSE x \in S : \A y \in S : x >= y

\* path.split('.')
RECURSIVE Split(_)
Split(s) ==
  LET dots == {i \in 1..Len(s) : CharAt(s, i) = "."}
  IN IF dots = {} THEN <<s>>
     ELSE LET i == MinOf(dots)
          IN <<SubSeq(s, 1, i - 1)>> \o Split(SubSeq(s, i + 1, Len(s)))

\* input.trim(); the blank is the only white-space character of the inputs
Trim(s) ==
  LET solid == {i \in 1..Len(s) : CharAt(s, i) # " "}
  IN IF solid = {} THEN "" ELSE SubSeq(s, MinOf(solid), MaxOf(solid))

Digits == {"0", "1", "2", "3", "4", "5", "6", "7", "8", "9"}

\* !isNaN(Number(input)): Number trims white space, maps the empty string to
\* 0 and otherwise needs a numeric literal (decimal literals, optionally
\* signed; the inputs use no exponent, hex or Infinity forms).
IsDecimalLiteral(s) ==
  LET body == IF Len(s) > 0 /\ CharAt(s, 1) \in {"+", "-"} THEN SubSeq(s, 2, Len(s)) ELSE s
      dots == {i \in 1..Len(body) : CharAt(body, i) = "."}
      digs == {i \in 1..Len(body) : CharAt(body, i) \in Digits}
  IN /\ Cardinality(dots) <= 1
     /\ Cardinality(digs) >= 1
     /\ \A i \in 1..Len(body) : i \in dots \/ i \in digs

NumberIsNaN(input) ==
  LET s == Trim(input) IN ~(s = "" \/ IsDecimalLiteral(s))

\* one or more characters, none of them white space or '@':  [^\s@]+
NoSpaceAt(s) ==
  Len(s) > 0 /\ \A i \in 1..Len(s) : CharAt(s, i) \notin {" ", "@"}

\* /^[^\s@]+@[^\s@]+\.[^\s@]+$/.test(input)
EmailRegexTest(s) ==
  \E i \in 1..Len(s) : \E j \in 1..Len(s) :
    /\ i < j
    /\ CharAt(s, i) = "@"
    /\ CharAt(s, j) = "."
    /\ NoSpaceAt(SubSeq(s, 1, i - 1))
    /\ NoSpaceAt(SubSeq(s, i + 1, j - 1))
    /\ NoSpaceAt(SubSeq(s, j + 1, Len(s)))

\* FlowEngine.validateInput(input, validation); validation is the stored
\* validation object of the wait-state
validateInput(input, validation) ==
  LET type == Prop(validation, "type")
  IN CASE type = Str("text") -> Len(Trim(input)) > 0
       [] type = Str("number") -> ~NumberIsNaN(input)
       [] type = Str("email") -> EmailRegexTest(input)
       [] OTHER -> TRUE

(***************************************************************************)
(* Dot-path access to the data bag                                         *)
(***************************************************************************)
\* path.split('.').reduce((current, key) => current?.[key], obj)
RECURSIVE GetKeys(_, _)
GetKeys(v, keys) ==
  IF keys = <<>> THEN v ELSE GetKeys(Prop(v, Head(keys)), Tail(keys))

getNestedProperty(obj, path) == GetKeys(obj, Split(path))

\* The reduce of setNestedProperty followed by target[lastKey] = value.
\* Result: [ok, v]; ok = FALSE is the TypeError that strict-mode code raises
\* when a property is assigned on a primitive string or number.
RECURSIVE SetKeys(_, _, _)
SetKeys(cur, keys, value) ==
  IF cur.t # "obj" THEN [ok |-> FALSE, v |-> cur]
  ELSE IF Len(keys) = 1
    THEN [ok |-> TRUE, v |-> Obj((Head(keys) :> value) @@ cur.f)]
    ELSE LET old == Prop(cur, Head(keys))
             child == IF Truthy(old) THEN old ELSE EmptyObj
             sub == SetKeys(child, Tail(keys), value)
         IN [ok |-> sub.ok,
             v |-> IF sub.ok THEN Obj((Head(keys) :> sub.v) @@ cur.f) ELSE cur]

setNestedProperty(obj, path, value) == SetKeys(obj, Split(path), value)

\* JSON.stringify followed by JSON.parse of a stored value: properties whose
\* value is undefined are not written.
RECURSIVE JsonRoundTrip(_)
JsonRoundTrip(v) ==
  IF v.t # "obj" THEN v
  ELSE LET keep == {k \in DOMAIN v.f : v.f[k].t # "undef"}
       IN Obj([k \in keep |-> JsonRoundTrip(v.f[k])])

(***************************************************************************)
(* Static configuration: step types, flows, keyboards, callback actions    *)
(* and custom handlers.  The registry holds the shipped flows (shortened   *)
(* texts) and flows that exercise the step types no shipped flow uses.     *)
(***************************************************************************)
\* Optional fields of a step: undefined (or '' for the fields the engine only
\* tests for truthiness).
StepDefaults ==
  [id |-> "", text |-> "", keyboardKey |-> "", nextStepId |-> Undef,
   saveToVariable |-> "", validation |-> Undef, buttons |-> <<>>,
   condition |-> [kind |-> "none"], trueStep |-> Undef, falseStep |-> Undef,
   trueFlow |-> "", falseFlow |-> "", handlerName |-> "", flowName |-> "",
   action |-> "", handler |-> "", nextFlow |-> "", callbackPrefix |-> "",
   duration |-> 0]

MessageStep(id, text, keyboardKey, nextStepId) ==
  [type |-> "message", id |-> id, text |-> text, keyboardKey |-> keyboardKey,
   nextStepId |-> nextStepId] @@ StepDefaults

WaitInputStep(id, text, saveToVariable, validation, nextStepId) ==
  [type |-> "wait_input", id |-> id, text |-> text,
   saveToVariable |-> saveToVariable, validation |-> validation,
   nextStepId |-> nextStepId] @@ StepDefaults

CallbackStep(id, buttons) ==
  [type |-> "callback", id |-> id, buttons |-> buttons] @@ StepDefaults

ConditionStep(id, condition, trueStep, falseStep) ==
  [type |-> "condition", id |-> id, condition |-> condition,
   trueStep |-> trueStep, falseStep |-> falseStep] @@ StepDefaults

HandlerStep(id, handlerName, nextStepId) ==
  [type |-> "handler", id |-> id, handlerName |-> handlerName,
   nextStepId |-> nextStepId] @@ StepDefaults

FlowStep(id, flowName) ==
  [type |-> "flow", id |-> id, flowName |-> flowName] @@ StepDefaults

DelayStep(id, duration, nextStepId) ==
  [type |-> "delay", id |-> id, duration |-> duration,
   nextStepId |-> nextStepId] @@ StepDefaults

ForwardingControlStep(id, action, nextStepId) ==
  [type |-> "forwarding_control", id |-> id, action |-> action,
   nextStepId |-> nextStepId] @@ StepDefaults

DynamicStep(id, handler, keyboardKey, nextStepId) ==
  [type |-> "dynamic", id |-> id, handler |-> handler,
   keyboardKey |-> keyboardKey, nextStepId |-> nextStepId] @@ StepDefaults

DynamicCallbackStep(id, handler, saveToVariable, nextStepId, nextFlow, callbackPrefix) ==
  [type |-> "dynamic_callback", id |-> id, handler |-> handler,
   saveToVariable |-> saveToVariable, nextStepId |-> nextStepId,
   nextFlow |-> nextFlow, callbackPrefix |-> callbackPrefix] @@ StepDefaults

Validation(type, errorMessage) ==
  Obj([type |-> Str(type), errorMessage |-> Str(errorMessage)])

\* condition: "<root>.<path> === '<equals>'"
EqCondition(root, path, equals) ==
  [kind |-> "eq", root |-> root, path |-> path, equals |-> equals]

onboardingFlow ==
  << MessageStep("send_welcome", "Welcome", "start_onboarding_button", Undef),
     WaitInputStep("onboarding_asking_name", "Your name?", "onboarding.name",
                   Undef, Str("onboarding_asking_email")),
     WaitInputStep("onboarding_asking_email", "Your email?", "onboarding.email",
                   Validation("email", "Please give a valid email"),
                   Str("onboarding_choose_role")),
     MessageStep("onboarding_choose_role", "Which role?", "matcher_role_keyboard", Undef),
     ConditionStep("onboarding_role_condition",
                   EqCondition("globalObject", <<"onboarding", "role">>, "offer"),
                   Str("onboarding_select_offer_type"),
                   Str("onboarding_select_search_type")),
     MessageStep("onboarding_select_offer_type", "What do you offer?",
                 "matcher_offer_type_keyboard", Undef),
     MessageStep("onboarding_select_search_type", "What do you seek?",
                 "matcher_search_type_keyboard", Undef),
     HandlerStep("onboarding_assign_topic", "matcherAssignTopicHandler",
                 Str("onboarding_finish_menu")),
     FlowStep("onboarding_finish_menu", "menu") >>

menuFlow ==
  << MessageStep("show_main_menu", "Send /start to add another item", "", Undef) >>

helpFlow ==
  << MessageStep("show_help", "Send /menu", "", Undef) >>

setStatusFlow ==
  << MessageStep("show_set_status_buttons", "Select the status:", "status_menu", Undef) >>

\* Wait-input steps of every validation type and every kind of nextStepId.
profileFlow ==
  << WaitInputStep("profile_name", "Your name?", "profile.name",
                   Undef, Str("profile_email")),
     WaitInputStep("profile_email", "Your email?", "profile.email",
                   Validation("email", "Please give a valid email"), Num(2)),
     WaitInputStep("profile_age", "Your age?", "profile.age",
                   Validation("number", "Age must be a number"), Str("profile_bio")),
     WaitInputStep("profile_bio", "About you?", "profile.bio",
                   Validation("text", "Please write something"), Undef),
     WaitInputStep("profile_phone", "Your phone?", "profile.phone",
                   Validation("phone", "Not a phone"), Num(0)) >>

\* Steps of the kinds no shipped flow uses.
catalogFlow ==
  << DynamicCallbackStep("select", "listItems", "catalog.item", Str("confirm"), "", ""),
     DynamicCallbackStep("brand", "listItems", "catalog.brand", Undef, "menu", "dc_b"),
     DynamicCallbackStep("size", "listItems", "catalog.size", Undef, "", ""),
     DynamicCallbackStep("color", "listItems", "catalog.color", Str("confirm"), "", "pick"),
     DynamicCallbackStep("restart", "listItems", "catalog.restart", Num(0), "", ""),
     DynamicStep("confirm", "describeSelection", "", Str("quantity")),
     WaitInputStep("quantity", "How many?", "catalog.quantity",
                   Validation("number", "Quantity must be a number"), Str("ask_more")),
     CallbackStep("ask_more",
        << [text |-> "Again", value |-> Str("again"), saveToVariable |-> "catalog.more",
            nextStepId |-> Str("select"), nextFlow |-> ""],
           [text |-> "Done", value |-> Str("done"), saveToVariable |-> "",
            nextStepId |-> Undef, nextFlow |-> "menu"] >>),
     ForwardingControlStep("mute", "disable", Str("select")) >>

\* the condition of the shipped onboarding flow
RoleIsOffer == EqCondition("globalObject", <<"onboarding", "role">>, "offer")

\* Condition steps: the shipped expression with step and with flow branches,
\* the same test read through the object the evaluator is handed, an
\* expression that does not parse and one that dereferences a missing
\* property.
branchFlow ==
  << MessageStep("branch_menu", "Which role?", "matcher_role_keyboard", Undef),
     ConditionStep("by_role", RoleIsOffer, Str("offer_side"), Str("search_side")),
     [trueFlow |-> "help", falseFlow |-> "menu"]
       @@ ConditionStep("by_role_flow", RoleIsOffer, Undef, Undef),
     ConditionStep("by_wrapped_role",
                   EqCondition("globalObject", <<"globalObject", "onboarding", "role">>, "offer"),
                   Str("offer_side"), Str("search_side")),
     ConditionStep("malformed", [kind |-> "malformed"],
                   Str("offer_side"), Str("search_side")),
     [trueFlow |-> "help", falseFlow |-> "menu"]
       @@ ConditionStep("missing",
                        EqCondition("globalObject", <<"profile", "address", "city">>, "x"),
                        Undef, Undef),
     MessageStep("offer_side", "What do you offer?", "matcher_offer_type_keyboard", Undef),
     MessageStep("search_side", "What do you seek?", "matcher_search_type_keyboard", Undef) >>

\* A flow that switches forwarding back on before it waits for a text.
supportFlow ==
  << ForwardingControlStep("unmute", "enable", Str("ask")),
     WaitInputStep("ask", "Your question?", "support.question", Undef, Str("thanks")),
     MessageStep("thanks", "Thank you", "", Undef) >>

\* Message steps with and without keyboard and with every kind of
\* nextStepId, and a Delay step.
tourFlow ==
  << MessageStep("tour_menu", "Pick", "start_onboarding_button", Str("tour_a")),
     MessageStep("tour_a", "A", "", Str("tour_wait")),
     WaitInputStep("tour_wait", "Your answer?", "tour.answer", Undef, Undef),
     MessageStep("tour_b", "B", "", Num(2)),
     MessageStep("tour_home", "Home", "", Num(0)),
     MessageStep("tour_end", "End", "", Undef),
     MessageStep("tour_back", "Back?", "status_menu", Num(0)),
     MessageStep("tour_lost", "Lost", "", Str("no_such_step")),
     DelayStep("tour_pause", 5, Str("tour_end")) >>

\* Steps that name a flow or a handler that is not registered, and steps
\* whose handler throws.
repairFlow ==
  << MessageStep("repair_menu", "Repair", "status_menu", Undef),
     FlowStep("to_nowhere", "no_such_flow"),
     [falseFlow |-> "no_such_flow"]
       @@ ConditionStep("else_nowhere", [kind |-> "malformed"], Undef, Undef),
     HandlerStep("crash_then_note", "matcherAssignTopicHandler", Str("repair_note")),
     HandlerStep("crash_then_first", "matcherAssignTopicHandler", Num(0)),
     HandlerStep("ghost_handler", "noSuchHandler", Str("repair_note")),
     DynamicStep("ghost_dynamic", "noSuchHandler", "", Str("repair_note")),
     DynamicCallbackStep("ghost_choice", "noSuchHandler", "repair.choice", Undef, "", ""),
     MessageStep("repair_note", "Noted", "status_menu", Undef) >>

\* Dynamic steps with every kind of nextStepId, with and without keyboard
\* and with a handler that throws, and steps that declare no successor.
noticeFlow ==
  << MessageStep("notice_menu", "Notices", "status_menu", Undef),
     DynamicStep("notice_next", "describeSelection", "", Str("notice_menu")),
     DynamicStep("notice_keys", "describeSelection", "status_menu", Str("notice_menu")),
     DynamicStep("notice_last", "describeSelection", "", Str("")),
     DynamicStep("notice_open", "describeSelection", "", Undef),
     DynamicStep("crash_next", "matcherAssignTopicHandler", "", Str("notice_menu")),
     DynamicStep("crash_last", "matcherAssignTopicHandler", "status_menu", Str("")),
     DynamicStep("crash_open", "matcherAssignTopicHandler", "", Undef),
     ConditionStep("no_branch", [kind |-> "malformed"], Str("notice_menu"), Undef),
     ForwardingControlStep("mute_only", "disable", Undef),
     WaitInputStep("ask_only", "Your note?", "notice.note", Undef, Undef) >>

\* Callback steps whose buttons carry a variable, a step, a flow, both a
\* flow and a step, or nothing.
choiceFlow ==
  << CallbackStep("choose",
        << [text |-> "Keep", value |-> Str("keep"), saveToVariable |-> "choice.kept",
            nextStepId |-> Str("choice_note"), nextFlow |-> ""],
           [text |-> "Both", value |-> Str("both"), saveToVariable |-> "choice.both",
            nextStepId |-> Str("choice_note"), nextFlow |-> "help"],
           [text |-> "First", value |-> Num(1), saveToVariable |-> "",
            nextStepId |-> Num(0), nextFlow |-> ""] >>),
     CallbackStep("more",
        << [text |-> "Leave", value |-> Str("leave"), saveToVariable |-> "",
            nextStepId |-> Undef, nextFlow |-> "menu"],
           [text |-> "Stay", value |-> Str("stay"), saveToVariable |-> "choice.stay",
            nextStepId |-> Undef, nextFlow |-> ""] >>),
     MessageStep("choice_note", "Noted", "status_menu", Undef) >>

\* Steps whose successor is a step already executed.
loopFlow ==
  << MessageStep("loop_menu", "Loop", "status_menu", Undef),
     MessageStep("again", "Again", "", Str("again")),
     MessageStep("ping", "Ping", "", Str("pong")),
     MessageStep("pong", "Pong", "", Str("ping")),
     ConditionStep("retry", [kind |-> "malformed"], Undef, Str("retry")),
     HandlerStep("rerun", "matcherAssignTopicHandler", Str("rerun")),
     FlowStep("spin", "spin"),
     MessageStep("loop_end", "End", "", Undef) >>

\* A flow whose first step transfers to the flow itself.
spinFlow ==
  << FlowStep("spin", "spin") >>

flows ==
  [onboarding |-> onboardingFlow, menu |-> menuFlow, help |-> helpFlow,
   profile |-> profileFlow, branch |-> branchFlow, support |-> supportFlow,
   tour |-> tourFlow, repair |-> repairFlow, notice |-> noticeFlow, choice |-> choiceFlow,
   loop |-> loopFlow, spin |-> spinFlow,
   set_status |-> setStatusFlow, catalog |-> catalogFlow]

FlowNames == DOMAIN flows

\* keyboards: name -> callback_data of the buttons
keyboards ==
  [start_onboarding_button |-> <<"start_onboarding_button">>,
   matcher_role_keyboard |-> <<"matcher_role_offer", "matcher_role_search">>,
   matcher_offer_type_keyboard |-> <<"matcher_select_product", "matcher_select_service">>,
   matcher_search_type_keyboard |-> <<"matcher_select_product", "matcher_select_service">>,
   status_menu |-> <<"new_lead_status", "hot_lead_status", "sell_lead_status">>]

\* keyboards[step.keyboardKey], or undefined
HasKeyboard(keyboardKey) == keyboardKey # "" /\ keyboardKey \in DOMAIN keyboards
KeyboardPayloads(keyboardKey) ==
  IF HasKeyboard(keyboardKey) THEN keyboards[keyboardKey] ELSE <<>>

ActionDefaults ==
  [flowName |-> "", nextStepId |-> Undef, variable |-> "", value |-> Undef,
   nextFlow |-> "", handlerName |-> ""]

callbackActions ==
  [start_onboarding_button |->
     [action |-> "go_to_step", nextStepId |-> Str("onboarding_asking_name")] @@ ActionDefaults,
   matcher_role_offer |->
     [action |-> "set_variable", variable |-> "onboarding.role", value |-> Str("offer"),
      nextStepId |-> Str("onboarding_role_condition")] @@ ActionDefaults,
   matcher_select_product |->
     [action |-> "set_variable", variable |-> "onboarding.itemType", value |-> Str("product"),
      nextStepId |-> Str("onboarding_assign_topic")] @@ ActionDefaults,
   help |->
     [action |-> "start_flow", flowName |-> "help"] @@ ActionDefaults,
   new_lead_status |->
     [action |-> "handler", handlerName |-> "setStatusHandler"] @@ ActionDefaults,
   broken_link |->
     [action |-> "start_flow", flowName |-> "no_such_flow"] @@ ActionDefaults,
   crash_then_flow |->
     [action |-> "handler", handlerName |-> "matcherAssignTopicHandler",
      nextFlow |-> "help", nextStepId |-> Str("repair_note")] @@ ActionDefaults,
   crash_then_step |->
     [action |-> "handler", handlerName |-> "matcherAssignTopicHandler",
      nextStepId |-> Str("repair_note")] @@ ActionDefaults,
   ghost_action |->
     [action |-> "handler", handlerName |-> "noSuchHandler",
      nextStepId |-> Str("repair_note")] @@ ActionDefaults,
   both_set |->
     [action |-> "set_variable", variable |-> "choice.set", value |-> Str("set"),
      nextFlow |-> "help", nextStepId |-> Str("choice_note")] @@ ActionDefaults]

\* customHandlers: name -> what the handler does, seen from the engine
\*   "none"     returns nothing and leaves the context alone
\*   "complete" ends by calling flowEngine.completeFlow
\*   "text"     returns the text of a Dynamic step
\*   "buttons"  returns {message, buttons} of a DynamicCallback step
\*   "throw"    throws
customHandlers ==
  [setStatusHandler |-> [kind |-> "complete"],
   matcherAssignTopicHandler |-> [kind |-> "throw"],
   describeSelection |-> [kind |-> "text"],
   listItems |-> [kind |-> "buttons"]]

DynamicText == "Your selection"
ButtonsMessage == "Choose:"
\* values of the buttons a DynamicCallback handler returns
LongValue == "0123456789012345678901234567890123456789012345678901234567890123456789"
ButtonValues == <<"1", "2", LongValue>>

(***************************************************************************)
(* Bounds                                                                  *)
(***************************************************************************)
\* longest chain of step executions followed inside one operation
MaxChain == 12
\* the store write of an operation that fails is one of its first MaxFaultAt
MaxFaultAt == 3

(***************************************************************************)
(* UserContextManager                                                      *)
(*                                                                         *)
(* The operators below transform a "world" w:                              *)
(*   present   the humans row of the actor exists (getHumanByTelegramId)   *)
(*   ctx       the context persisted in data_in.context                    *)
(*   trace     what the running operation has done so far                  *)
(*   exc       an exception is propagating                                 *)
(*   fuel, diverged   bound on the chain of step executions                *)
(*   adminChatId, flows   what the engine was set up with: the default     *)
(*             admin chat and the registry of flows                        *)
(*   saves     store writes attempted so far                               *)
(*   fault     which of them fail: none (at = 0), write number at, or      *)
(*             every write from number at on (rest); and whether the reads *)
(*             of getContext fail (read)                                   *)
(* An operator applied to a world in which an exception propagates does    *)
(* nothing: the statements after a throw are skipped up to the next catch. *)
(***************************************************************************)
DefaultContext ==
  [currentFlow |-> "", currentStep |-> 0, data |-> EmptyObj, stepHistory |-> <<>>,
   messageForwardingEnabled |-> TRUE, flowMode |-> FALSE, flowInTopic |-> FALSE,
   topicId |-> Null, adminChatId |-> Null, targetUserId |-> Null]

Halted(w) == w.exc \/ w.diverged
Throw(w) == IF Halted(w) THEN w ELSE [w EXCEPT !.exc = TRUE]
Catch(w) == [w EXCEPT !.exc = FALSE]
Log(w, ev) == IF Halted(w) THEN w ELSE [w EXCEPT !.trace = Append(@, ev)]

\* getContext: null when the human is unknown or the store read throws, else
\* the stored context
ContextFound(w) == w.present /\ ~w.fault.read
getContext(w) == w.ctx

NoFault == [at |-> 0, rest |-> FALSE, read |-> FALSE]

\* humanRepository.updateHumanDataIn throws on the next write
StoreFails(w) ==
  /\ w.fault.at # 0
  /\ IF w.fault.rest THEN w.saves + 1 >= w.fault.at ELSE w.saves + 1 = w.fault.at

\* saveContextToDatabase: the context is written as JSON; the UPDATE changes
\* no row when the human does not exist; what the repository throws is not
\* caught
saveContextToDatabase(w, c) ==
  IF Halted(w) \/ ~w.present THEN w
  ELSE IF StoreFails(w)
       THEN [w EXCEPT !.saves = @ + 1, !.exc = TRUE,
                      !.trace = Append(@, [e |-> "fail"])]
  ELSE LET stored == [c EXCEPT !.data = JsonRoundTrip(@)]
       IN [w EXCEPT !.saves = @ + 1, !.ctx = stored,
                    !.trace = Append(@, [e |-> "save", ctx |-> stored])]

createContext(w) == saveContextToDatabase(w, DefaultContext)

getOrCreateContext(w) ==
  IF ContextFound(w) THEN w ELSE createContext(w)

\* Object.assign(context, updates), then save
updateContext(w, updates) ==
  IF Halted(w) \/ ~ContextFound(w) THEN w
  ELSE saveContextToDatabase(w, updates @@ getContext(w))

setVariable(w, path, value) ==
  IF Halted(w) \/ ~ContextFound(w) THEN w
  ELSE LET c == getContext(w)
           r == setNestedProperty(c.data, path, value)
       IN IF r.ok THEN saveContextToDatabase(w, [c EXCEPT !.data = r.v])
          ELSE Throw(w)

getVariable(w, path) ==
  IF ContextFound(w) THEN getNestedProperty(getContext(w).data, path) ELSE Undef

enableMessageForwarding(w) ==
  IF Halted(w) \/ ~ContextFound(w) THEN w
  ELSE saveContextToDatabase(w, [getContext(w) EXCEPT !.messageForwardingEnabled = TRUE])

disableMessageForwarding(w) ==
  IF Halted(w) \/ ~ContextFound(w) THEN w
  ELSE saveContextToDatabase(w, [getContext(w) EXCEPT !.messageForwardingEnabled = FALSE])

\* enterFlowMode that persists the two fields one after the other
enterFlowModeInTwoWrites(w) ==
  IF Halted(w) \/ ~ContextFound(w) THEN w
  ELSE disableMessageForwarding(
         saveContextToDatabase(w, [getContext(w) EXCEPT !.flowMode = TRUE]))

enterFlowMode(w) ==
  IF Halted(w) \/ ~ContextFound(w) THEN w
  ELSE saveContextToDatabase(w,
         [getContext(w) EXCEPT !.flowMode = TRUE, !.messageForwardingEnabled = FALSE])

\* exitFlowMode without the return to forwarding
exitFlowModeKeepsForwarding(w) ==
  IF Halted(w) \/ ~ContextFound(w) THEN w
  ELSE saveContextToDatabase(w, [getContext(w) EXCEPT !.flowMode = FALSE])

exitFlowMode(w) ==
  IF Halted(w) \/ ~ContextFound(w) THEN w
  ELSE saveContextToDatabase(w,
         [getContext(w) EXCEPT !.flowMode = FALSE, !.messageForwardingEnabled = TRUE])

isInFlowMode(w) == ContextFound(w) /\ getContext(w).flowMode

(***************************************************************************)
(* The context inside humans.data_in.  The column is read as                *)
(*   [t |-> "none"]          null or the empty string                      *)
(*   [t |-> "text"]          a text that is not JSON                       *)
(*   [t |-> "json", v |-> x] the JSON text of the value x                  *)
(* The operators above work on the context this section builds from the    *)
(* column and write it back whole under data_in.context.                   *)
(***************************************************************************)
Bool(b) == [t |-> "bool", b |-> b]
EmptyArray == [t |-> "array"]
NumOrNull(n) == IF n = Null THEN JNull ELSE Num(n)

\* contextData of saveContextToDatabase
contextData(c) ==
  Obj([currentFlow |-> Str(c.currentFlow), currentStep |-> Num(c.currentStep),
       data |-> c.data, stepHistory |-> EmptyArray,
       messageForwardingEnabled |-> Bool(c.messageForwardingEnabled),
       flowMode |-> Bool(c.flowMode), flowInTopic |-> Bool(c.flowInTopic),
       topicId |-> NumOrNull(c.topicId), adminChatId |-> NumOrNull(c.adminChatId),
       targetUserId |-> NumOrNull(c.targetUserId)])

\* savedData of getContext: {} when the column is empty or does not parse;
\* reading .context of a parsed null throws inside the same try block
savedData(dataIn) ==
  IF dataIn.t # "json" \/ dataIn.v.t = "null" THEN EmptyObj
  ELSE IF Truthy(Prop(dataIn.v, "context")) THEN Prop(dataIn.v, "context")
  ELSE dataIn.v

\* x ?? d
Nullish(x) == x.t \in {"undef", "null"}

\* the context literal of getContext with `||` in the place of every `??`
contextLiteralWithOr(saved) ==
  [currentFlow |-> IF Truthy(Prop(saved, "currentFlow"))
                   THEN Prop(saved, "currentFlow").s ELSE "",
   currentStep |-> IF Truthy(Prop(saved, "currentStep"))
                   THEN Prop(saved, "currentStep").n ELSE 0,
   data |-> IF Truthy(Prop(saved, "data")) THEN Prop(saved, "data") ELSE EmptyObj,
   stepHistory |-> <<>>,
   messageForwardingEnabled |-> IF Truthy(Prop(saved, "messageForwardingEnabled"))
                                THEN Prop(saved, "messageForwardingEnabled").b ELSE TRUE,
   flowMode |-> IF Truthy(Prop(saved, "flowMode"))
                THEN Prop(saved, "flowMode").b ELSE FALSE,
   flowInTopic |-> IF Truthy(Prop(saved, "flowInTopic"))
                   THEN Prop(saved, "flowInTopic").b ELSE FALSE,
   topicId |-> IF Truthy(Prop(saved, "topicId")) THEN Prop(saved, "topicId").n ELSE Null,
   adminChatId |-> IF Truthy(Prop(saved, "adminChatId"))
                   THEN Prop(saved, "adminChatId").n ELSE Null,
   targetUserId |-> IF Truthy(Prop(saved, "targetUserId"))
                    THEN Prop(saved, "targetUserId").n ELSE Null]

\* the context literal of getContext: `||` for currentFlow, currentStep, data
\* and stepHistory, `??` for the flags and the topic fields
contextLiteral(saved) ==
  [currentFlow |-> IF Truthy(Prop(saved, "currentFlow"))
                   THEN Prop(saved, "currentFlow").s ELSE "",
   currentStep |-> IF Truthy(Prop(saved, "currentStep"))
                   THEN Prop(saved, "currentStep").n ELSE 0,
   data |-> IF Truthy(Prop(saved, "data")) THEN Prop(saved, "data") ELSE EmptyObj,
   stepHistory |-> <<>>,
   messageForwardingEnabled |-> IF Nullish(Prop(saved, "messageForwardingEnabled"))
                                THEN TRUE ELSE Prop(saved, "messageForwardingEnabled").b,
   flowMode |-> IF Nullish(Prop(saved, "flowMode"))
                THEN FALSE ELSE Prop(saved, "flowMode").b,
   flowInTopic |-> IF Nullish(Prop(saved, "flowInTopic"))
                   THEN FALSE ELSE Prop(saved, "flowInTopic").b,
   topicId |-> IF Nullish(Prop(saved, "topicId")) THEN Null ELSE Prop(saved, "topicId").n,
   adminChatId |-> IF Nullish(Prop(saved, "adminChatId"))
                   THEN Null ELSE Prop(saved, "adminChatId").n,
   targetUserId |-> IF Nullish(Prop(saved, "targetUserId"))
                    THEN Null ELSE Prop(saved, "targetUserId").n]

\* what getContext returns for a humans row (human: the row was found)
NotFound == [found |-> FALSE]
getContextOfRow(human, dataIn) ==
  IF ~human THEN NotFound
  ELSE [found |-> TRUE, context |-> contextLiteral(savedData(dataIn))]

(***************************************************************************)
(* MessageService, seen from the engine: the sends are recorded.           *)
(***************************************************************************)
\* context.flowInTopic && context.topicId && context.adminChatId
SendsToTopic(c) == c.flowInTopic /\ TruthyNum(c.topicId) /\ TruthyNum(c.adminChatId)

\* sendMessage / sendMessageWithKeyboard / sendMessageToTopic /
\* sendMessageWithKeyboardToTopic, chosen by the context c the step loaded;
\* payloads are the callback_data of the keyboard's buttons
Send(w, c, text, kb, payloads) ==
  IF SendsToTopic(c)
  THEN Log(w, [e |-> "send", to |-> "topic", chat |-> c.adminChatId,
               topic |-> c.topicId, kb |-> kb, text |-> text, payloads |-> payloads])
  ELSE Log(w, [e |-> "send", to |-> "direct", chat |-> Null,
               topic |-> Null, kb |-> kb, text |-> text, payloads |-> payloads])

(***************************************************************************)
(* JSON callback payloads                                                  *)
(***************************************************************************)
OptStr(s) == IF s = "" THEN Undef ELSE Str(s)

\* property order of the objects the engine and the flows serialise
JsonKeyOrder ==
  <<"action", "stepId", "flowName", "variable", "value", "saveToVariable",
    "nextStepId", "nextFlow">>

JsonScalar(v) ==
  CASE v.t = "str" -> "\"" \o v.s \o "\""
    [] v.t = "num" -> ToString(v.n)
    [] OTHER -> "null"

RECURSIVE JsonMembers(_, _, _)
JsonMembers(v, keys, first) ==
  IF keys = <<>> THEN ""
  ELSE LET k == Head(keys)
           x == Prop(v, k)
       IN IF x.t = "undef" THEN JsonMembers(v, Tail(keys), first)
          ELSE (IF first THEN "" ELSE ",") \o "\"" \o k \o "\":" \o JsonScalar(x)
               \o JsonMembers(v, Tail(keys), FALSE)

\* JSON.stringify of a flat object: undefined properties are left out
JSONstringify(v) == "{" \o JsonMembers(v, JsonKeyOrder, TRUE) \o "}"

\* the object handleCallbackStep serialises for one button
ButtonObject(step, b) ==
  Obj([stepId |-> Str(step.id), value |-> b.value,
       saveToVariable |-> OptStr(b.saveToVariable),
       nextStepId |-> b.nextStepId, nextFlow |-> OptStr(b.nextFlow)])

\* ad hoc JSON actions a keyboard built by a handler may carry
AdHocObjects ==
  { Obj([action |-> Str("start_flow"), flowName |-> Str("menu")]),
    Obj([action |-> Str("set_variable"), variable |-> Str("onboarding.role"),
         value |-> Str("search"), nextStepId |-> Str("onboarding_role_condition")]),
    Obj([action |-> Str("go_to_step"), nextStepId |-> Num(1)]),
    Obj([action |-> Str("start_flow"), flowName |-> Str("no_such_flow")]),
    Obj([action |-> Str("set_variable"), variable |-> Str("choice.json"),
         value |-> Str("json"), nextStepId |-> Str("choice_note"),
         nextFlow |-> Str("help")]) }

JsonObjects ==
  AdHocObjects \cup
  { JsonRoundTrip(ButtonObject(flows[f][i], flows[f][i].buttons[j])) :
      <<f, i, j>> \in { x \in FlowNames \X (1..9) \X (1..3) :
                          /\ x[2] <= Len(flows[x[1]])
                          /\ x[3] <= Len(flows[x[1]][x[2]].buttons) } }

\* JSON.parse: [ok, v]; ok = FALSE is the SyntaxError.  The payloads are
\* serialised objects and the literals null, true and false.
JSONparse(s) ==
  IF s = "null" THEN [ok |-> TRUE, v |-> JNull]
  ELSE IF s \in {"true", "false"} THEN [ok |-> TRUE, v |-> [t |-> "bool", b |-> (s = "true")]]
  ELSE IF \E o \in JsonObjects : JSONstringify(o) = s
       THEN [ok |-> TRUE, v |-> CHOOSE o \in JsonObjects : JSONstringify(o) = s]
       ELSE [ok |-> FALSE, v |-> Undef]

(***************************************************************************)
(* Condition evaluator                                                     *)
(***************************************************************************)
\* member access without ?. : reading a property of undefined or null throws
RECURSIVE StrictGet(_, _)
StrictGet(v, keys) ==
  IF keys = <<>> THEN [ok |-> TRUE, v |-> v]
  ELSE IF v.t \in {"undef", "null"} THEN [ok |-> FALSE, v |-> Undef]
  ELSE StrictGet(Prop(v, Head(keys)), Tail(keys))

\* an evaluator whose failures count as true
evaluateConditionFailsTrue(condition, globalObject) ==
  IF condition.kind = "eq" /\ condition.root = "globalObject"
  THEN LET r == StrictGet(globalObject, condition.path)
       IN ~r.ok \/ r.v = Str(condition.equals)
  ELSE TRUE

\* new Function('globalObject', `return ${condition}`)(globalObject); the only
\* identifier in scope is the parameter; every failure is caught and gives false
evaluateCondition(condition, globalObject) ==
  IF condition.kind = "eq" /\ condition.root = "globalObject"
  THEN LET r == StrictGet(globalObject, condition.path)
       IN r.ok /\ r.v = Str(condition.equals)
  ELSE FALSE

(***************************************************************************)
(* FlowEngine                                                              *)
(***************************************************************************)
CallEvent(name, flow, id) == [e |-> "call", name |-> name, flow |-> flow, id |-> id]

RECURSIVE executeStep(_, _), startFlow(_, _), goToStepInternal(_, _)

TelegramCallbackDataLimit == 64

\* completeFlow without the reset of the flow pointer
completeFlowKeepsPointer(w) ==
  IF Halted(w) THEN w
  ELSE LET w0 == Log(w, CallEvent("completeFlow", "", Undef))
       IN IF ~ContextFound(w0) THEN w0
          ELSE updateContext(exitFlowMode(w0),
                 [flowInTopic |-> FALSE, topicId |-> Null, adminChatId |-> Null,
                  targetUserId |-> Null])

\* completeFlow that ends with forwarding switched off
completeFlowMutesForwarding(w) ==
  IF Halted(w) THEN w
  ELSE LET w0 == Log(w, CallEvent("completeFlow", "", Undef))
       IN IF ~ContextFound(w0) THEN w0
          ELSE updateContext(exitFlowMode(w0),
                 [currentFlow |-> "", currentStep |-> 0, flowInTopic |-> FALSE,
                  topicId |-> Null, adminChatId |-> Null, targetUserId |-> Null,
                  messageForwardingEnabled |-> FALSE])

completeFlow(w) ==
  IF Halted(w) THEN w
  ELSE LET w0 == Log(w, CallEvent("completeFlow", "", Undef))
       IN IF ~ContextFound(w0) THEN w0
          ELSE updateContext(exitFlowMode(w0),
                 [currentFlow |-> "", currentStep |-> 0, flowInTopic |-> FALSE,
                  topicId |-> Null, adminChatId |-> Null, targetUserId |-> Null])

\* await handler(telegramId, this.userContextManager[, callbackData])
InvokeHandler(w, name) ==
  LET w0 == Log(w, [e |-> "handler", name |-> name])
      kind == customHandlers[name].kind
  IN CASE kind = "complete" -> completeFlow(w0)
       [] kind = "throw" -> Throw(w0)
       [] OTHER -> w0

handleMessageStep(w, step) ==
  IF Halted(w) \/ ~ContextFound(w) THEN w
  ELSE LET c == getContext(w)
           keyboard == HasKeyboard(step.keyboardKey)
           w1 == Send(w, c, step.text, keyboard, KeyboardPayloads(step.keyboardKey))
       IN IF keyboard THEN w1
          ELSE IF Truthy(step.nextStepId) THEN goToStepInternal(w1, step.nextStepId)
          ELSE completeFlow(w1)

WaitingState(step) ==
  Obj([stepId |-> Str(step.id), saveToVariable |-> Str(step.saveToVariable),
       validation |-> step.validation, nextStepId |-> step.nextStepId])

\* handleWaitInputStep without the fork on the destination
handleWaitInputStepDirect(w, step) ==
  IF Halted(w) \/ ~ContextFound(w) THEN w
  ELSE LET c == getContext(w)
           w1 == setVariable(w, "_system.waitingForInput", WaitingState(step))
       IN Send(w1, [c EXCEPT !.flowInTopic = FALSE], step.text, FALSE, <<>>)

handleWaitInputStep(w, step) ==
  IF Halted(w) \/ ~ContextFound(w) THEN w
  ELSE LET c == getContext(w)
           w1 == setVariable(w, "_system.waitingForInput", WaitingState(step))
       IN Send(w1, c, step.text, FALSE, <<>>)

RECURSIVE JoinOr(_)
JoinOr(buttons) ==
  IF buttons = <<>> THEN ""
  ELSE IF Len(buttons) = 1 THEN Head(buttons).text
  ELSE Head(buttons).text \o " or " \o JoinOr(Tail(buttons))

handleCallbackStep(w, step) ==
  IF Halted(w) \/ ~ContextFound(w) THEN w
  ELSE LET c == getContext(w)
           payloads == [i \in 1..Len(step.buttons) |->
                          JSONstringify(ButtonObject(step, step.buttons[i]))]
       IN Send(w, c, JoinOr(step.buttons) \o "?", TRUE, payloads)

handleConditionStep(w, step) ==
  IF Halted(w) \/ ~ContextFound(w) THEN w
  ELSE LET c == getContext(w)
           result == evaluateCondition(step.condition,
                                       Obj([globalObject |-> c.data]))
       IN IF result
          THEN IF step.trueFlow # "" THEN startFlow(w, step.trueFlow)
               ELSE IF Truthy(step.trueStep) THEN goToStepInternal(w, step.trueStep)
               ELSE w
          ELSE IF step.falseFlow # "" THEN startFlow(w, step.falseFlow)
               ELSE IF Truthy(step.falseStep) THEN goToStepInternal(w, step.falseStep)
               ELSE w

handleHandlerStep(w, step) ==
  IF Halted(w) THEN w
  ELSE LET w1 == IF step.handlerName \in DOMAIN customHandlers
                 THEN Catch(InvokeHandler(w, step.handlerName))
                 ELSE w
       IN IF Truthy(step.nextStepId) THEN goToStepInternal(w1, step.nextStepId)
          ELSE w1

handleFlowStep(w, step) == startFlow(w, step.flowName)

handleForwardingControlStep(w, step) ==
  LET w1 == IF step.action = "enable" THEN enableMessageForwarding(w)
            ELSE disableMessageForwarding(w)
  IN IF Truthy(step.nextStepId) THEN goToStepInternal(w1, step.nextStepId) ELSE w1

\* what a Dynamic step's handler returns as the message
HandlerText(name) ==
  IF customHandlers[name].kind = "text" THEN DynamicText ELSE "undefined"

\* the catch block of handleDynamicStep; w is the world the try block left
CatchDynamicStep(w, step) ==
  IF w.exc
  THEN IF Truthy(step.nextStepId)
       THEN goToStepInternal(Catch(w), step.nextStepId)
       ELSE completeFlow(Catch(w))
  ELSE w

\* the try block: the handler, the send and the transition
TryDynamicStep(w, c, step) ==
  LET w2 == Send(InvokeHandler(w, step.handler), c, HandlerText(step.handler),
                 HasKeyboard(step.keyboardKey), KeyboardPayloads(step.keyboardKey))
  IN IF Truthy(step.nextStepId) THEN goToStepInternal(w2, step.nextStepId)
     ELSE IF step.nextStepId = Str("") THEN completeFlow(w2)
     ELSE w2

handleDynamicStep(w, step) ==
  IF Halted(w) \/ ~ContextFound(w) THEN w
  ELSE IF step.handler \in DOMAIN customHandlers
       THEN CatchDynamicStep(TryDynamicStep(w, getContext(w), step), step)
       ELSE completeFlow(w)

\* prefix of a DynamicCallback step: step.callbackPrefix || `dc_${step.id}`
PrefixOf(step) ==
  IF step.callbackPrefix # "" THEN step.callbackPrefix ELSE "dc_" \o step.id

\* callback_data of one generated button, truncated to the 64 characters
\* Telegram accepts
CallbackDataOf(prefix, value) ==
  LET callbackData == prefix \o "_" \o value
      maxValueLength == TelegramCallbackDataLimit - Len(prefix) - 1
  IN IF Len(callbackData) > TelegramCallbackDataLimit
     THEN prefix \o "_" \o SubstringTo(value, maxValueLength)
     ELSE callbackData

\* the catch block of handleDynamicCallbackStep
CatchDynamicCallbackStep(w) ==
  IF w.exc THEN completeFlow(Catch(w)) ELSE w

\* the try block: the handler, then the keyboard of its buttons, or
\* completeFlow when it returned no {message, buttons}
TryDynamicCallbackStep(w, c, step) ==
  LET w1 == InvokeHandler(w, step.handler)
      payloads == [i \in 1..Len(ButtonValues) |->
                     CallbackDataOf(PrefixOf(step), ButtonValues[i])]
  IN IF customHandlers[step.handler].kind # "buttons"
     THEN completeFlow(w1)
     ELSE Send(w1, c, ButtonsMessage, TRUE, payloads)

handleDynamicCallbackStep(w, step) ==
  IF Halted(w) \/ ~ContextFound(w) THEN w
  ELSE IF step.handler \in DOMAIN customHandlers
       THEN CatchDynamicCallbackStep(TryDynamicCallbackStep(w, getContext(w), step))
       ELSE completeFlow(w)

executeStep(w, step) ==
  IF Halted(w) THEN w
  ELSE IF w.fuel = 0 THEN [w EXCEPT !.diverged = TRUE]
  ELSE LET w0 == Log([w EXCEPT !.fuel = @ - 1],
                     [e |-> "exec", type |-> step.type, id |-> step.id])
       IN Catch(CASE step.type = "message" -> handleMessageStep(w0, step)
                  [] step.type = "wait_input" -> handleWaitInputStep(w0, step)
                  [] step.type = "callback" -> handleCallbackStep(w0, step)
                  [] step.type = "condition" -> handleConditionStep(w0, step)
                  [] step.type = "handler" -> handleHandlerStep(w0, step)
                  [] step.type = "flow" -> handleFlowStep(w0, step)
                  [] step.type = "dynamic" -> handleDynamicStep(w0, step)
                  [] step.type = "dynamic_callback" -> handleDynamicCallbackStep(w0, step)
                  [] step.type = "forwarding_control" -> handleForwardingControlStep(w0, step)
                  [] OTHER -> w0)

\* startFlow without the reset of the topic fields
startFlowKeepsTopic(w, flowName) ==
  IF Halted(w) THEN w
  ELSE LET w0 == Log(w, CallEvent("startFlow", flowName, Undef))
       IN IF flowName \notin DOMAIN w.flows THEN w0
          ELSE LET w1 == updateContext(enterFlowMode(w0),
                           [currentFlow |-> flowName, currentStep |-> 0])
               IN IF Len(w.flows[flowName]) > 0
                  THEN executeStep(w1, w.flows[flowName][1])
                  ELSE w1

\* startFlow that enters flow mode before it looks the flow up
startFlowEntersFirst(w, flowName) ==
  IF Halted(w) THEN w
  ELSE LET w0 == enterFlowMode(Log(w, CallEvent("startFlow", flowName, Undef)))
       IN IF flowName \notin DOMAIN w.flows THEN w0
          ELSE LET w1 == updateContext(w0,
                           [currentFlow |-> flowName, currentStep |-> 0,
                            flowInTopic |-> FALSE, topicId |-> Null,
                            adminChatId |-> Null, targetUserId |-> Null])
               IN IF Len(w.flows[flowName]) > 0
                  THEN executeStep(w1, w.flows[flowName][1])
                  ELSE w1

startFlow(w, flowName) ==
  IF Halted(w) THEN w
  ELSE LET w0 == Log(w, CallEvent("startFlow", flowName, Undef))
       IN IF flowName \notin DOMAIN w.flows THEN w0
          ELSE LET w1 == updateContext(enterFlowMode(w0),
                           [currentFlow |-> flowName, currentStep |-> 0,
                            flowInTopic |-> FALSE, topicId |-> Null,
                            adminChatId |-> Null, targetUserId |-> Null])
               IN IF Len(w.flows[flowName]) > 0
                  THEN executeStep(w1, w.flows[flowName][1])
                  ELSE w1

\* the precedence with the interpreter-level default ahead of the parameter
AdminChatIdValueDefaultFirst(w, adminChatId) ==
  IF TruthyNum(w.adminChatId) THEN w.adminChatId
  ELSE IF TruthyNum(adminChatId) THEN adminChatId
  ELSE IF TruthyNum(getContext(w).adminChatId) THEN getContext(w).adminChatId
  ELSE Null

\* adminChatId || this.adminChatId || adminContext.adminChatId || null
AdminChatIdValue(w, adminChatId) ==
  IF TruthyNum(adminChatId) THEN adminChatId
  ELSE IF TruthyNum(w.adminChatId) THEN w.adminChatId
  ELSE IF TruthyNum(getContext(w).adminChatId) THEN getContext(w).adminChatId
  ELSE Null

\* startTopicFlow without the test of the admin chat id
startTopicFlowUnchecked(w, topicId, flowName, targetUserId, adminChatId) ==
  LET w0 == Log(w, CallEvent("startTopicFlow", flowName, Undef))
  IN IF flowName \notin DOMAIN w.flows \/ ~ContextFound(w0) THEN w0
     ELSE LET w1 == updateContext(enterFlowMode(w0),
                      [currentFlow |-> flowName, currentStep |-> 0,
                       flowInTopic |-> TRUE, topicId |-> topicId,
                       adminChatId |-> AdminChatIdValue(w0, adminChatId),
                       targetUserId |-> IF TruthyNum(targetUserId)
                                        THEN targetUserId ELSE Null])
              w2 == IF TruthyNum(targetUserId)
                    THEN setVariable(w1, "targetUserId", Num(targetUserId))
                    ELSE w1
          IN IF Len(w.flows[flowName]) > 0
             THEN executeStep(w2, w.flows[flowName][1])
             ELSE w2

\* an absent optional parameter (targetUserId, adminChatId) is Null
startTopicFlow(w, topicId, flowName, targetUserId, adminChatId) ==
  LET w0 == Log(w, CallEvent("startTopicFlow", flowName, Undef))
  IN IF flowName \notin DOMAIN w.flows \/ ~ContextFound(w0) THEN w0
     ELSE IF ~TruthyNum(AdminChatIdValue(w0, adminChatId)) THEN w0
     ELSE LET w1 == updateContext(enterFlowMode(w0),
                      [currentFlow |-> flowName, currentStep |-> 0,
                       flowInTopic |-> TRUE, topicId |-> topicId,
                       adminChatId |-> AdminChatIdValue(w0, adminChatId),
                       targetUserId |-> IF TruthyNum(targetUserId)
                                        THEN targetUserId ELSE Null])
              w2 == IF TruthyNum(targetUserId)
                    THEN setVariable(w1, "targetUserId", Num(targetUserId))
                    ELSE w1
          IN IF Len(w.flows[flowName]) > 0
             THEN executeStep(w2, w.flows[flowName][1])
             ELSE w2

\* flow.steps.findIndex(step => step.id === id)
FindIndex(steps, id) ==
  LET hits == {i \in 1..Len(steps) : steps[i].id = id}
  IN IF hits = {} THEN 0 - 1 ELSE MinOf(hits) - 1

goToStepInternal(w, stepIdentifier) ==
  IF Halted(w) THEN w
  ELSE LET w0 == Log(w, CallEvent("goToStep", "", stepIdentifier))
           c == getContext(w0)
       IN IF ~ContextFound(w0) \/ c.currentFlow = "" THEN w0
          ELSE IF c.currentFlow \notin DOMAIN w.flows THEN w0
          ELSE LET steps == w.flows[c.currentFlow]
                   stepIndex == IF stepIdentifier.t = "str"
                                THEN FindIndex(steps, stepIdentifier.s)
                                ELSE stepIdentifier.n
               IN IF stepIndex = 0 - 1 \/ stepIndex >= Len(steps) THEN w0
                  ELSE LET w1 == updateContext(w0, [currentStep |-> stepIndex])
                       IN IF stepIndex >= 0
                          THEN executeStep(w1, steps[stepIndex + 1])
                          ELSE w1

goToStep(w, stepIdentifier) == goToStepInternal(w, stepIdentifier)

\* handleIncomingMessage that answers a text nobody waits for
handleIncomingMessageAnswersAll(w, messageText) ==
  LET waitingState == getVariable(w, "_system.waitingForInput")
      c == getContext(w)
      validation == Prop(waitingState, "validation")
      nextStepId == Prop(waitingState, "nextStepId")
  IN IF Halted(w) \/ ~ContextFound(w) THEN w
     ELSE IF ~Truthy(waitingState) \/ (Truthy(validation) /\ ~validateInput(messageText, validation))
          THEN Send(w, c, "Invalid input format", FALSE, <<>>)
          ELSE LET w1 == setVariable(w, Prop(waitingState, "saveToVariable").s,
                                     Str(messageText))
                   w2 == setVariable(w1, "_system.waitingForInput", JNull)
               IN IF Truthy(nextStepId) THEN goToStepInternal(w2, nextStepId)
                  ELSE w2

handleIncomingMessage(w, messageText) ==
  LET waitingState == getVariable(w, "_system.waitingForInput")
      c == getContext(w)
      validation == Prop(waitingState, "validation")
      errorText == Prop(validation, "errorMessage")
      errorMessage == IF Truthy(errorText) THEN errorText.s ELSE "Invalid input format"
      nextStepId == Prop(waitingState, "nextStepId")
  IN IF Halted(w) \/ ~Truthy(waitingState) THEN w
     ELSE IF Truthy(validation) /\ ~validateInput(messageText, validation)
          THEN Send(w, c, errorMessage, FALSE, <<>>)
          ELSE LET w1 == setVariable(w, Prop(waitingState, "saveToVariable").s,
                                     Str(messageText))
                   w2 == setVariable(w1, "_system.waitingForInput", JNull)
               IN IF Truthy(nextStepId) THEN goToStepInternal(w2, nextStepId)
                  ELSE w2

\* handleTopicMessage without the test of flowInTopic
handleTopicMessageUnchecked(w, messageText) ==
  IF ~ContextFound(w) THEN w
  ELSE handleIncomingMessage(w, messageText)

handleTopicMessage(w, messageText) ==
  IF ~ContextFound(w) \/ ~getContext(w).flowInTopic THEN w
  ELSE handleIncomingMessage(w, messageText)

\* the transition that follows a stored value: nextFlow, else nextStepId
NextFlowOrStep(w, nextFlow, nextStepId) ==
  IF Truthy(nextFlow) THEN startFlow(w, nextFlow.s)
  ELSE IF Truthy(nextStepId) THEN goToStepInternal(w, nextStepId)
  ELSE w

handleDynamicCallback(w, callbackData) ==
  LET c == getContext(w)
  IN IF Halted(w) \/ ~ContextFound(w) \/ c.currentFlow = "" THEN w
     ELSE IF c.currentFlow \notin DOMAIN w.flows THEN w
     ELSE LET steps == w.flows[c.currentFlow]
              matches == {i \in 1..Len(steps) :
                            /\ steps[i].type = "dynamic_callback"
                            /\ StartsWith(callbackData, PrefixOf(steps[i]) \o "_")}
          IN IF matches = {} THEN w
             ELSE LET matchedStep == steps[MinOf(matches)]
                      value == Substring(callbackData, Len(PrefixOf(matchedStep)) + 1)
                      w1 == setVariable(Log(w, [e |-> "matched", id |-> matchedStep.id]),
                                        matchedStep.saveToVariable, Str(value))
                  IN IF matchedStep.nextFlow # "" THEN startFlow(w1, matchedStep.nextFlow)
                     ELSE IF Truthy(matchedStep.nextStepId)
                          THEN goToStepInternal(w1, matchedStep.nextStepId)
                          ELSE completeFlow(w1)

handleKeyboardCallback(w, callbackData) ==
  LET c == getContext(w)
  IN IF Halted(w) \/ ~ContextFound(w) THEN w
     ELSE IF c.currentFlow \notin DOMAIN w.flows THEN w
     ELSE IF c.currentStep < 0 \/ c.currentStep >= Len(w.flows[c.currentFlow]) THEN w
     ELSE LET currentStep == w.flows[c.currentFlow][c.currentStep + 1]
          IN IF currentStep.type = "message" /\ currentStep.keyboardKey # ""
             THEN LET w1 == setVariable(Log(w, [e |-> "keyboard", id |-> currentStep.id]),
                                        "keyboard." \o callbackData, Str(callbackData))
                  IN IF Truthy(currentStep.nextStepId)
                     THEN goToStepInternal(w1, currentStep.nextStepId)
                     ELSE w1
             ELSE w

\* the switch on callbackConfig.action; every known action returns.  w1 is
\* the world after the part of the case that precedes its transition.
RegistryAction(w, callbackData) ==
  LET cfg == callbackActions[callbackData]
      w0 == Log(w, [e |-> "route", route |-> "registry"])
      w1 == CASE cfg.action = "set_variable" ->
                   IF cfg.variable # "" /\ cfg.value.t # "undef"
                   THEN setVariable(w0, cfg.variable, cfg.value) ELSE w0
               [] cfg.action = "handler" ->
                   IF cfg.handlerName \in DOMAIN customHandlers
                   THEN Catch(InvokeHandler(w0, cfg.handlerName)) ELSE w0
               [] OTHER -> w0
  IN CASE cfg.action = "start_flow" -> startFlow(w1, cfg.flowName)
       [] cfg.action = "go_to_step" -> goToStepInternal(w1, cfg.nextStepId)
       [] OTHER -> NextFlowOrStep(w1, OptStr(cfg.nextFlow), cfg.nextStepId)

KnownActions == {"start_flow", "go_to_step", "set_variable", "handler"}

\* the switch on data.action inside the try block; reading data.action of
\* null throws.  w1 is the world after the part of the case that precedes its
\* transition.
JsonAction(w, data) ==
  LET w0 == Log(w, [e |-> "route", route |-> "json"])
      action == Prop(data, "action")
      w1 == CASE action = Str("set_variable") ->
                   IF Truthy(Prop(data, "variable")) /\ Prop(data, "value").t # "undef"
                   THEN setVariable(w0, Prop(data, "variable").s, Prop(data, "value"))
                   ELSE w0
               [] action \in {Str("start_flow"), Str("go_to_step")} -> w0
               [] OTHER ->
                   IF Truthy(Prop(data, "saveToVariable"))
                   THEN setVariable(w0, Prop(data, "saveToVariable").s, Prop(data, "value"))
                   ELSE w0
  IN IF data.t = "null" THEN Throw(w0)
     ELSE CASE action = Str("start_flow") ->
                 IF Truthy(Prop(data, "flowName"))
                 THEN startFlow(w1, Prop(data, "flowName").s) ELSE w1
            [] action = Str("go_to_step") ->
                 IF Truthy(Prop(data, "nextStepId"))
                 THEN goToStepInternal(w1, Prop(data, "nextStepId")) ELSE w1
            [] OTHER ->
                 NextFlowOrStep(w1, Prop(data, "nextFlow"), Prop(data, "nextStepId"))

\* the try block: JSON.parse(callbackData), then the switch on data.action
TryJson(w, callbackData) ==
  IF JSONparse(callbackData).ok
  THEN JsonAction(w, JSONparse(callbackData).v)
  ELSE Throw(w)

\* the catch block of that try: whatever was thrown inside it, the payload
\* is handed to the keyboard fallback
CatchKeyboard(w, callbackData) ==
  IF w.exc
  THEN handleKeyboardCallback(
         Log(Catch(w), [e |-> "route", route |-> "keyboard"]), callbackData)
  ELSE w

handleIncomingCallback(w, callbackData) ==
  IF Halted(w) THEN w
  ELSE IF callbackData \in DOMAIN callbackActions
          /\ callbackActions[callbackData].action \in KnownActions
  THEN RegistryAction(w, callbackData)
  ELSE IF StartsWith(callbackData, "dc_")
  THEN handleDynamicCallback(Log(w, [e |-> "route", route |-> "dynamic"]), callbackData)
  ELSE CatchKeyboard(TryJson(w, callbackData), callbackData)

handleTopicCallback(w, callbackData) ==
  IF ~ContextFound(w) \/ ~getContext(w).flowInTopic THEN w
  ELSE handleIncomingCallback(w, callbackData)

(***************************************************************************)
(* TelegramBotWorker: a message of the actor in the private chat that is   *)
(* not a command.  topicId is topic_id of the humans row; a message        *)
(* without text (a photo, a voice note) has text "".                       *)
(***************************************************************************)
isMessageForwardingEnabled(w) ==
  IF ContextFound(w) THEN getContext(w).messageForwardingEnabled ELSE TRUE

\* topicService.forwardMessageToUserTopic is recorded
handleAllMessages(w, topicId) ==
  IF Halted(w) \/ ~w.present THEN w
  ELSE IF isMessageForwardingEnabled(w) /\ topicId # 0
       THEN Log(w, [e |-> "forward", topic |-> topicId])
       ELSE w

\* processMessage without the return that follows the hand-over to the engine
processMessageFallsThrough(w, text, topicId) ==
  IF ~w.present THEN w
  ELSE LET w1 == getOrCreateContext(w)
       IN IF isInFlowMode(w1) /\ text # ""
          THEN handleAllMessages(
                 handleIncomingMessage(Log(w1, [e |-> "route", route |-> "flowEngine"]), text),
                 topicId)
          ELSE handleAllMessages(w1, topicId)

processMessage(w, text, topicId) ==
  IF ~w.present THEN w
  ELSE LET w1 == getOrCreateContext(w)
       IN IF isInFlowMode(w1) /\ text # ""
          THEN handleIncomingMessage(Log(w1, [e |-> "route", route |-> "flowEngine"]), text)
          ELSE handleAllMessages(w1, topicId)

(***************************************************************************)
(* The state machine: one actor, events processed one at a time.           *)
(***************************************************************************)
VARIABLES
  present,             \* the actor's humans row exists
  ctx,                 \* the persisted context
  adminChatIdDefault,  \* FlowEngine.adminChatId (constructor argument)
  humanTopicId,        \* topic_id of the humans row, 0 when it has none
  dataIn,              \* data_in of the humans row, as another writer left it
  loaded,              \* what getContext returned for that row
  procs,               \* the operations that run at the same time
  fault,               \* the store writes of the next operation that fail
  op,                  \* the operation that ran last, with its arguments
  pre,                 \* the persisted context when that operation started
  trace,               \* saves, sends, calls and step executions it made
  thrown,              \* it ended by throwing
  diverged             \* it exceeded MaxChain step executions

vars ==
  <<present, ctx, adminChatIdDefault, humanTopicId, dataIn, loaded, procs, fault, op,
    pre, trace, thrown, diverged>>

TopicIds == {7}
AdminChatIds == {500}
\* admin chats passed as the parameter of startTopicFlow
AdminChatIdParams == {600}
TargetUserIds == {99}

OpDefaults ==
  [flow |-> "", id |-> Undef, text |-> "", payload |-> "", topicId |-> Null,
   targetUserId |-> Null, adminChatId |-> Null, path |-> "", value |-> Undef]

World ==
  [present |-> present, ctx |-> ctx, trace |-> <<>>, exc |-> FALSE,
   fuel |-> MaxChain, diverged |-> FALSE, adminChatId |-> adminChatIdDefault,
   flows |-> flows, saves |-> 0, fault |-> fault]

\* the operation o has run and left the world w
Ran(o, w) ==
  /\ op' = o @@ OpDefaults
  /\ pre' = ctx
  /\ ctx' = w.ctx
  /\ trace' = w.trace
  /\ thrown' = w.exc
  /\ diverged' = w.diverged
  /\ fault' = NoFault
  /\ UNCHANGED <<present, adminChatIdDefault, humanTopicId, dataIn, loaded, procs>>

\* the operations that can run at the same time; none runs
Procs == {1, 2}
Task(k, a) == [k |-> k, a |-> a]
NoProcs == [p \in Procs |-> [run |-> Task("none", <<>>), stack |-> <<>>, ran |-> FALSE]]

Init ==
  /\ present = FALSE
  /\ ctx = DefaultContext
  /\ adminChatIdDefault \in AdminChatIds \cup {Null}
  /\ humanTopicId = 0
  /\ dataIn = [t |-> "none"]
  /\ loaded = NotFound
  /\ procs = NoProcs
  /\ fault = NoFault
  /\ op = [name |-> "init"] @@ OpDefaults
  /\ pre = DefaultContext
  /\ trace = <<>>
  /\ thrown = FALSE
  /\ diverged = FALSE

\* the bot finds or adds the humans row before it uses the engine
RegisterHuman ==
  /\ ~present
  /\ present' = TRUE
  /\ op' = [name |-> "registerHuman"] @@ OpDefaults
  /\ pre' = ctx
  /\ trace' = <<>>
  /\ thrown' = FALSE
  /\ diverged' = FALSE
  /\ UNCHANGED <<ctx, adminChatIdDefault, humanTopicId, dataIn, loaded, procs, fault>>

\* the /start command registers the human with the topic created for it
RegisterHumanWithTopic(T) ==
  /\ ~present
  /\ present' = TRUE
  /\ humanTopicId' \in T
  /\ op' = [name |-> "registerHuman"] @@ OpDefaults
  /\ pre' = ctx
  /\ trace' = <<>>
  /\ thrown' = FALSE
  /\ diverged' = FALSE
  /\ UNCHANGED <<ctx, adminChatIdDefault, dataIn, loaded, procs, fault>>

\* the store becomes unavailable during the next operation: its write number
\* f.at fails, alone or with every write after it
ArmFault(F) ==
  /\ present /\ fault = NoFault
  /\ fault' \in F
  /\ UNCHANGED <<present, ctx, adminChatIdDefault, humanTopicId, dataIn, loaded, procs,
                 op, pre, trace,
                 thrown, diverged>>

GetOrCreateContext ==
  Ran([name |-> "getOrCreateContext"], getOrCreateContext(World))

StartFlow(F) ==
  \E f \in F :
    Ran([name |-> "startFlow", flow |-> f], startFlow(World, f))

StartTopicFlow(F, T, U, A) ==
  \E f \in F, t \in T, u \in U, a \in A :
    Ran([name |-> "startTopicFlow", flow |-> f, topicId |-> t,
         targetUserId |-> u, adminChatId |-> a],
        startTopicFlow(World, t, f, u, a))

GoToStep(X) ==
  \E x \in X :
    Ran([name |-> "goToStep", id |-> x], goToStep(World, x))

CompleteFlow ==
  Ran([name |-> "completeFlow"], completeFlow(World))

HandleIncomingMessage(M) ==
  \E m \in M :
    Ran([name |-> "handleIncomingMessage", text |-> m], handleIncomingMessage(World, m))

HandleTopicMessage(M) ==
  \E m \in M :
    Ran([name |-> "handleTopicMessage", text |-> m], handleTopicMessage(World, m))

HandleIncomingCallback(P) ==
  \E p \in P :
    Ran([name |-> "handleIncomingCallback", payload |-> p],
        handleIncomingCallback(World, p))

HandleTopicCallback(P) ==
  \E p \in P :
    Ran([name |-> "handleTopicCallback", payload |-> p],
        handleTopicCallback(World, p))

EnterFlowMode ==
  Ran([name |-> "enterFlowMode"], enterFlowMode(World))

ExitFlowMode ==
  Ran([name |-> "exitFlowMode"], exitFlowMode(World))

EnableMessageForwarding ==
  Ran([name |-> "enableMessageForwarding"], enableMessageForwarding(World))

DisableMessageForwarding ==
  Ran([name |-> "disableMessageForwarding"], disableMessageForwarding(World))

SetVariable(P, V) ==
  \E p \in P, v \in V :
    Ran([name |-> "setVariable", path |-> p, value |-> v], setVariable(World, p, v))

ProcessMessage(M) ==
  \E m \in M :
    Ran([name |-> "processMessage", text |-> m], processMessage(World, m, humanTopicId))

(***************************************************************************)
(* Spec: the life cycle of flows in direct and topic mode, over the flows  *)
(* that send from every step type.                                         *)
(***************************************************************************)
LifecycleFlows == {"catalog", "onboarding", "menu", "no_such_flow"}
LifecycleTopicFlows == {"catalog", "set_status", "no_such_flow"}
LifecycleSteps == {Str("confirm"), Str("mute"), Str("no_such_step"), Num(0), Num(7)}
LifecycleTexts == {"42", "abc"}
LifecyclePayloads == {"dc_select_2", "new_lead_status", "unknown_payload_string"}

Next ==
  \/ RegisterHuman
  \/ GetOrCreateContext
  \/ StartFlow(LifecycleFlows)
  \/ StartTopicFlow(LifecycleTopicFlows, TopicIds, TargetUserIds \cup {Null},
                    AdminChatIdParams \cup {Null})
  \/ GoToStep(LifecycleSteps)
  \/ CompleteFlow
  \/ HandleIncomingMessage(LifecycleTexts)
  \/ HandleTopicMessage(LifecycleTexts)
  \/ HandleIncomingCallback(LifecyclePayloads)
  \/ HandleTopicCallback(LifecyclePayloads)

Spec == Init /\ [][Next]_vars

(***************************************************************************)
(* SpecInput: text answers to the wait-input steps of every validation     *)
(* type, in direct and topic mode.                                         *)
(***************************************************************************)
InputFlows == {"profile", "no_such_flow"}
InputTopicFlows == {"profile"}
InputSteps == {Str("profile_bio"), Num(4)}
InputTexts == {"a@b.co", "42", " "}

NextInput ==
  \/ RegisterHuman
  \/ StartFlow(InputFlows)
  \/ StartTopicFlow(InputTopicFlows, TopicIds, {Null}, AdminChatIds)
  \/ GoToStep(InputSteps)
  \/ CompleteFlow
  \/ HandleIncomingMessage(InputTexts)
  \/ HandleTopicMessage(InputTexts)

SpecInput == Init /\ [][NextInput]_vars

(***************************************************************************)
(* SpecCallback: callback payloads of every route, in direct and topic     *)
(* mode.                                                                   *)
(***************************************************************************)
CallbackFlows == {"catalog", "set_status"}
CallbackTopicFlows == {"catalog"}
CallbackSteps == {Str("brand"), Str("size"), Str("color"), Str("restart")}
StartMenuPayload ==
  JSONstringify(Obj([action |-> Str("start_flow"), flowName |-> Str("menu")]))
CallbackPayloads ==
  {"help", "new_lead_status", "dc_select_2", "dc_b_1", "dc_size_1", "dc_restart_1", "pick_1",
   "dc_nomatch_1", StartMenuPayload, "null"}

NextCallback ==
  \/ RegisterHuman
  \/ StartFlow(CallbackFlows)
  \/ StartTopicFlow(CallbackTopicFlows, TopicIds, {Null}, AdminChatIds)
  \/ GoToStep(CallbackSteps)
  \/ CompleteFlow
  \/ HandleIncomingCallback(CallbackPayloads)
  \/ HandleTopicCallback(CallbackPayloads)

SpecCallback == Init /\ [][NextCallback]_vars

(***************************************************************************)
(* SpecNavigation: goToStep with every kind of step identifier, and the    *)
(* Condition steps.                                                        *)
(***************************************************************************)
NavigationFlows == {"branch", "onboarding"}
NavigationSteps ==
  {Str("by_role"), Str("by_role_flow"), Str("by_wrapped_role"), Str("malformed"),
   Str("missing"), Str("no_such_step"),
   Num(1), Num(0 - 1), Num(0 - 2), Num(8), Num(50)}
SearchRolePayload ==
  JSONstringify(Obj([action |-> Str("set_variable"), variable |-> Str("onboarding.role"),
                     value |-> Str("search"),
                     nextStepId |-> Str("onboarding_role_condition")]))
NavigationPayloads == {"matcher_role_offer", SearchRolePayload}

NextNavigation ==
  \/ RegisterHuman
  \/ StartFlow(NavigationFlows)
  \/ GoToStep(NavigationSteps)
  \/ CompleteFlow
  \/ HandleIncomingCallback(NavigationPayloads)

SpecNavigation == Init /\ [][NextNavigation]_vars

(***************************************************************************)
(* SpecContext: the operations of UserContextManager called directly, in   *)
(* any order.                                                              *)
(***************************************************************************)
VariablePaths == {"a.b.c", "a.b.d", "a.b", "x"}
VariableValues == {Num(5), Num(0), Str("s"), JNull}

NextContext ==
  \/ RegisterHuman
  \/ GetOrCreateContext
  \/ EnterFlowMode
  \/ ExitFlowMode
  \/ EnableMessageForwarding
  \/ DisableMessageForwarding
  \/ SetVariable(VariablePaths, VariableValues)

SpecContext == Init /\ [][NextContext]_vars

(***************************************************************************)
(* SpecWorker: private messages of an actor with and without a topic,      *)
(* inside and outside flows.                                               *)
(***************************************************************************)
WorkerFlows == {"support", "profile"}
WorkerTexts == {"hello", "42", ""}

NextWorker ==
  \/ RegisterHuman
  \/ RegisterHumanWithTopic(TopicIds)
  \/ StartFlow(WorkerFlows)
  \/ CompleteFlow
  \/ ProcessMessage(WorkerTexts)

SpecWorker == Init /\ [][NextWorker]_vars

(***************************************************************************)
(* SpecRepair: steps and callback actions that name a flow or a handler    *)
(* that is not registered, or a handler that throws, in direct and topic   *)
(* mode.                                                                   *)
(***************************************************************************)
RepairFlows == {"repair", "no_such_flow"}
RepairTopicFlows == {"repair"}
RepairSteps ==
  {Str("to_nowhere"), Str("else_nowhere"), Str("crash_then_note"),
   Str("crash_then_first"), Str("ghost_handler"), Str("ghost_dynamic"),
   Str("ghost_choice")}
NowherePayload ==
  JSONstringify(Obj([action |-> Str("start_flow"), flowName |-> Str("no_such_flow")]))
RepairPayloads ==
  {"broken_link", "crash_then_flow", "crash_then_step", "ghost_action", NowherePayload}

NextRepair ==
  \/ RegisterHuman
  \/ StartFlow(RepairFlows)
  \/ StartTopicFlow(RepairTopicFlows, TopicIds, {Null}, AdminChatIds)
  \/ GoToStep(RepairSteps)
  \/ CompleteFlow
  \/ HandleIncomingCallback(RepairPayloads)
  \/ HandleTopicCallback(RepairPayloads)

SpecRepair == Init /\ [][NextRepair]_vars

(***************************************************************************)
(* SpecTour: Message steps with and without keyboard, payloads that only   *)
(* the keyboard fallback can take, and a Delay step.                       *)
(***************************************************************************)
TourFlows == {"tour"}
TourSteps ==
  {Str("tour_a"), Str("tour_b"), Str("tour_home"), Str("tour_end"),
   Str("tour_back"), Str("tour_lost"), Str("tour_pause")}
TourTexts == {"hi"}
TourPayloads == {"unknown_payload_string", "again"}

NextTour ==
  \/ RegisterHuman
  \/ StartFlow(TourFlows)
  \/ StartTopicFlow(TourFlows, TopicIds, {Null}, AdminChatIds)
  \/ GoToStep(TourSteps)
  \/ CompleteFlow
  \/ HandleIncomingMessage(TourTexts)
  \/ HandleIncomingCallback(TourPayloads)

SpecTour == Init /\ [][NextTour]_vars

\* SpecDelay: the behaviours of SpecTour in which the bot keeps receiving
\* events.  The engine sets no timer and keeps no queue of pending steps:
\* whatever moves a conversation is one of these events.
SpecDelay == SpecTour /\ WF_vars(NextTour)

(***************************************************************************)
(* SpecFault: the operations of the engine and of the context manager      *)
(* while store writes fail.                                                *)
(***************************************************************************)
Faults ==
  {[at |-> k, rest |-> r, read |-> FALSE] : k \in 1..MaxFaultAt, r \in BOOLEAN}
FaultFlows == {"support", "set_status"}
FaultSteps == {Str("thanks")}
FaultTexts == {"hi"}
FaultPayloads == {"new_lead_status"}

NextFault ==
  \/ RegisterHuman
  \/ ArmFault(Faults)
  \/ GetOrCreateContext
  \/ EnterFlowMode
  \/ ExitFlowMode
  \/ SetVariable({"x"}, {Num(5)})
  \/ StartFlow(FaultFlows)
  \/ StartTopicFlow(FaultFlows, TopicIds, {Null}, AdminChatIds)
  \/ GoToStep(FaultSteps)
  \/ CompleteFlow
  \/ HandleIncomingMessage(FaultTexts)
  \/ HandleIncomingCallback(FaultPayloads)

SpecFault == Init /\ [][NextFault]_vars

(***************************************************************************)
(* SpecNotice: Dynamic steps, and steps that declare no successor.         *)
(***************************************************************************)
NoticeFlows == {"notice"}
NoticeSteps ==
  {Str("notice_next"), Str("notice_keys"), Str("notice_last"), Str("notice_open"),
   Str("crash_next"), Str("crash_last"), Str("crash_open"), Str("no_branch"),
   Str("mute_only"), Str("ask_only")}
NoticeTexts == {"hi"}

NextNotice ==
  \/ RegisterHuman
  \/ StartFlow(NoticeFlows)
  \/ StartTopicFlow(NoticeFlows, TopicIds, {Null}, AdminChatIds)
  \/ GoToStep(NoticeSteps)
  \/ CompleteFlow
  \/ HandleIncomingMessage(NoticeTexts)

SpecNotice == Init /\ [][NextNotice]_vars

(***************************************************************************)
(* SpecLoop: flows in which a step leads back to a step already executed.  *)
(***************************************************************************)
LoopFlows == {"loop", "spin"}
LoopSteps ==
  {Str("again"), Str("ping"), Str("pong"), Str("retry"), Str("rerun"), Str("spin"),
   Str("loop_end"), Num(0)}

NextLoop ==
  \/ RegisterHuman
  \/ StartFlow(LoopFlows)
  \/ StartTopicFlow(LoopFlows, TopicIds, TargetUserIds \cup {Null}, AdminChatIds)
  \/ GoToStep(LoopSteps)
  \/ CompleteFlow

SpecLoop == Init /\ [][NextLoop]_vars

(***************************************************************************)
(* SpecChoice: the buttons of Callback steps, and the callback routes that *)
(* carry both a flow and a step.                                           *)
(***************************************************************************)
ChoiceFlows == {"choice"}
ChoiceSteps == {Str("more")}
\* callback_data of the buttons of the flow's Callback steps
ButtonPayloads ==
  { JSONstringify(ButtonObject(choiceFlow[i], choiceFlow[i].buttons[j])) :
      <<i, j>> \in { x \in (1..2) \X (1..3) : x[2] <= Len(choiceFlow[x[1]].buttons) } }
SetBothPayload ==
  JSONstringify(Obj([action |-> Str("set_variable"), variable |-> Str("choice.json"),
                     value |-> Str("json"), nextStepId |-> Str("choice_note"),
                     nextFlow |-> Str("help")]))
ChoicePayloads == ButtonPayloads \cup {SetBothPayload, "both_set", "crash_then_flow"}

NextChoice ==
  \/ RegisterHuman
  \/ StartFlow(ChoiceFlows)
  \/ StartTopicFlow(ChoiceFlows, TopicIds, {Null}, AdminChatIds)
  \/ GoToStep(ChoiceSteps)
  \/ CompleteFlow
  \/ HandleIncomingCallback(ChoicePayloads)

SpecChoice == Init /\ [][NextChoice]_vars

(***************************************************************************)
(* SpecReload: the context manager while the reads of getContext fail: for *)
(* a moment (the write that follows succeeds) or with the writes.          *)
(***************************************************************************)
ReadFaults ==
  {[at |-> 0, rest |-> FALSE, read |-> TRUE], [at |-> 1, rest |-> TRUE, read |-> TRUE]}
ReloadFlows == {"support", "set_status"}
ReloadTexts == {"hi"}

NextReload ==
  \/ RegisterHuman
  \/ ArmFault(ReadFaults)
  \/ GetOrCreateContext
  \/ SetVariable({"x"}, {Num(5)})
  \/ StartFlow(ReloadFlows)
  \/ StartTopicFlow(ReloadFlows, TopicIds, TargetUserIds, AdminChatIds)
  \/ CompleteFlow
  \/ HandleIncomingMessage(ReloadTexts)

SpecReload == Init /\ [][NextReload]_vars

(***************************************************************************)
(* SpecRow: getContext on the humans rows another writer can have left:    *)
(* no row, an empty data_in, a text that is not JSON, JSON that is no      *)
(* object, and objects that carry any part of a context, directly or under *)
(* the key "context", with the rest absent or null.                        *)
(***************************************************************************)
TopicContext ==
  [DefaultContext EXCEPT !.currentFlow = "support", !.currentStep = 1,
                         !.data = Obj([x |-> Num(5)]),
                         !.messageForwardingEnabled = FALSE, !.flowMode = TRUE,
                         !.flowInTopic = TRUE, !.topicId = 7, !.adminChatId = 500,
                         !.targetUserId = 99]
MutedContext ==
  [DefaultContext EXCEPT !.messageForwardingEnabled = FALSE, !.flowMode = TRUE]
ContextFields == DOMAIN DefaultContext

\* the fields K of a saved context, the others null (asNull) or absent
PartOf(saved, K, asNull) ==
  Obj([k \in (IF asNull THEN ContextFields ELSE K) |->
         IF k \in K THEN saved.f[k] ELSE JNull])
SavedParts ==
  { PartOf(contextData(c), K, n) :
      c \in {TopicContext, MutedContext}, K \in SUBSET ContextFields, n \in BOOLEAN }
DataIns ==
  { [t |-> "none"], [t |-> "text"] }
  \cup { [t |-> "json", v |-> x] :
           x \in {JNull, Num(5), Str("x"), Obj([context |-> JNull])} \cup SavedParts
                 \cup { Obj([telegram_id |-> Num(1), context |-> part]) : part \in SavedParts } }

InitRow ==
  /\ present \in BOOLEAN
  /\ dataIn \in DataIns
  /\ loaded = NotFound
  /\ ctx = DefaultContext
  /\ adminChatIdDefault = Null
  /\ humanTopicId = 0
  /\ procs = NoProcs
  /\ fault = NoFault
  /\ op = [name |-> "init"] @@ OpDefaults
  /\ pre = DefaultContext
  /\ trace = <<>>
  /\ thrown = FALSE
  /\ diverged = FALSE

GetContextOfRow ==
  /\ op.name = "init"
  /\ loaded' = getContextOfRow(present, dataIn)
  /\ op' = [name |-> "getContext"] @@ OpDefaults
  /\ UNCHANGED <<present, ctx, adminChatIdDefault, humanTopicId, dataIn, procs, fault,
                 pre, trace, thrown, diverged>>

NextRow == GetContextOfRow

SpecRow == InitRow /\ [][NextRow]_vars

(***************************************************************************)
(* SpecRace: two operations for one actor at the same time (two webhook    *)
(* deliveries).  An operation is a stack of tasks; a step of a process     *)
(* takes the task on top up to its next await: one read of the store, one  *)
(* write, one send, or the call of another method.  The tasks:             *)
(*   mutate   an operation of UserContextManager that changes the context: *)
(*            this step is its getContext, the write is a task of its own  *)
(*   write    saveContextToDatabase of the context computed by a mutate    *)
(*   send     a call of MessageService                                     *)
(*   startFlow, startTopicFlow, completeFlow, goToStepInternal,            *)
(*   executeStep, handleIncomingMessage: the methods of FlowEngine;        *)
(*   answer is handleIncomingMessage from its getContext on                *)
(* The flows of this specification have Message and WaitInput steps.       *)
(***************************************************************************)
\* the world of an operation that has just read the context c
WorldOf(c) == [World EXCEPT !.present = TRUE, !.ctx = c, !.fault = NoFault]

Mutate(f, a) == Task("mutate", [f |-> f] @@ a)

\* the context a UserContextManager operation makes of the context c it read
Mutated(a, c) ==
  CASE a.f = "enterFlowMode" -> enterFlowMode(WorldOf(c)).ctx
    [] a.f = "exitFlowMode" -> exitFlowMode(WorldOf(c)).ctx
    [] a.f = "updateContext" -> updateContext(WorldOf(c), a.updates).ctx
    [] a.f = "setVariable" -> setVariable(WorldOf(c), a.path, a.value).ctx

\* the store after the write of the context next by a process that read base,
\* when the store held c: the write is refused when the store has changed
WrittenIfUnchanged(next, base, c) == IF c = base THEN next ELSE c

\* the store after the write of the context next by a process that read base,
\* when the store held c: the whole context is replaced
Written(next, base, c) == next

\* the tasks of executeStep(step) after the getContext of its handler
StepTasks(step, c) ==
  CASE step.type = "message" ->
         <<Task("send", [text |-> step.text])>>
         \o (IF HasKeyboard(step.keyboardKey) THEN <<>>
             ELSE IF Truthy(step.nextStepId)
                  THEN <<Task("goToStepInternal", [id |-> step.nextStepId])>>
                  ELSE <<Task("completeFlow", <<>>)>>)
    [] step.type = "wait_input" ->
         << Mutate("setVariable", [path |-> "_system.waitingForInput",
                                   value |-> WaitingState(step)]),
            Task("send", [text |-> step.text]) >>
    [] OTHER -> <<>>

\* the tasks that replace the task t, taken while the store holds the
\* context c of an existing humans row
TasksAfter(t, c) ==
  CASE t.k = "mutate" ->
         <<Task("write", [ctx |-> Mutated(t.a, c), base |-> c])>>
    [] t.k = "startFlow" ->
         IF t.a.flow \notin FlowNames THEN <<>>
         ELSE << Mutate("enterFlowMode", <<>>),
                 Mutate("updateContext",
                        [updates |-> [currentFlow |-> t.a.flow, currentStep |-> 0,
                                      flowInTopic |-> FALSE, topicId |-> Null,
                                      adminChatId |-> Null, targetUserId |-> Null]]),
                 Task("executeStep", [step |-> flows[t.a.flow][1]]) >>
    [] t.k = "startTopicFlow" ->
         IF t.a.flow \notin FlowNames
            \/ ~TruthyNum(AdminChatIdValue(WorldOf(c), t.a.adminChatId))
         THEN <<>>
         ELSE << Mutate("enterFlowMode", <<>>),
                 Mutate("updateContext",
                        [updates |->
                           [currentFlow |-> t.a.flow, currentStep |-> 0,
                            flowInTopic |-> TRUE, topicId |-> t.a.topicId,
                            adminChatId |-> AdminChatIdValue(WorldOf(c), t.a.adminChatId),
                            targetUserId |-> IF TruthyNum(t.a.targetUserId)
                                             THEN t.a.targetUserId ELSE Null]]) >>
              \o (IF TruthyNum(t.a.targetUserId)
                  THEN <<Mutate("setVariable", [path |-> "targetUserId",
                                                value |-> Num(t.a.targetUserId)])>>
                  ELSE <<>>)
              \o <<Task("executeStep", [step |-> flows[t.a.flow][1]])>>
    [] t.k = "completeFlow" ->
         << Mutate("exitFlowMode", <<>>),
            Mutate("updateContext",
                   [updates |-> [currentFlow |-> "", currentStep |-> 0,
                                 flowInTopic |-> FALSE, topicId |-> Null,
                                 adminChatId |-> Null, targetUserId |-> Null]]) >>
    [] t.k = "goToStepInternal" ->
         IF c.currentFlow \notin FlowNames THEN <<>>
         ELSE LET steps == flows[c.currentFlow]
                  stepIndex == IF t.a.id.t = "str" THEN FindIndex(steps, t.a.id.s)
                               ELSE t.a.id.n
              IN IF stepIndex = 0 - 1 \/ stepIndex >= Len(steps) THEN <<>>
                 ELSE << Mutate("updateContext", [updates |-> [currentStep |-> stepIndex]]),
                         Task("executeStep", [step |-> steps[stepIndex + 1]]) >>
    [] t.k = "executeStep" -> StepTasks(t.a.step, c)
    [] t.k = "handleIncomingMessage" ->
         LET waitingState == getNestedProperty(c.data, "_system.waitingForInput")
         IN IF Truthy(waitingState)
            THEN <<Task("answer", [text |-> t.a.text, waitingState |-> waitingState])>>
            ELSE <<>>
    [] t.k = "answer" ->
         LET waitingState == t.a.waitingState
             validation == Prop(waitingState, "validation")
             errorText == Prop(validation, "errorMessage")
             nextStepId == Prop(waitingState, "nextStepId")
         IN IF Truthy(validation) /\ ~validateInput(t.a.text, validation)
            THEN <<Task("send", [text |-> IF Truthy(errorText) THEN errorText.s
                                          ELSE "Invalid input format"])>>
            ELSE << Mutate("setVariable", [path |-> Prop(waitingState, "saveToVariable").s,
                                           value |-> Str(t.a.text)]),
                    Mutate("setVariable", [path |-> "_system.waitingForInput",
                                           value |-> JNull]) >>
                 \o (IF Truthy(nextStepId)
                     THEN <<Task("goToStepInternal", [id |-> nextStepId])>>
                     ELSE <<>>)
    [] OTHER -> <<>>

AllDone == \A p \in Procs : procs[p].stack = <<>>

\* a webhook delivery starts the operation t: in process 1 when no operation
\* is running, in process 2 while the operation of process 1 is running.  The
\* operations run one after the other until two have run at the same time.
Begin(p, T) ==
  \E t \in T :
    /\ present
    /\ IF p = 1 THEN AllDone /\ ~procs[2].ran
       ELSE procs[1].stack # <<>> /\ ~procs[p].ran
    /\ procs' = IF p = 1
                THEN [NoProcs EXCEPT ![p] = [run |-> t, stack |-> <<t>>, ran |-> TRUE]]
                ELSE [procs EXCEPT ![p] = [run |-> t, stack |-> <<t>>, ran |-> TRUE]]
    /\ trace' = IF p = 1 THEN <<>> ELSE trace
    /\ pre' = IF p = 1 THEN ctx ELSE pre
    /\ op' = [name |-> "begin"] @@ OpDefaults
    /\ UNCHANGED <<present, ctx, adminChatIdDefault, humanTopicId, dataIn, loaded, fault,
                   thrown, diverged>>

\* the process p takes the task on top of its stack, which is no write
TakeTask(p) ==
  /\ procs[p].stack # <<>>
  /\ Head(procs[p].stack).k # "write"
  /\ LET t == Head(procs[p].stack)
     IN /\ procs' = [procs EXCEPT ![p].stack = TasksAfter(t, ctx) \o Tail(@)]
        /\ trace' = IF t.k = "executeStep"
                    THEN Append(trace, [e |-> "exec", type |-> t.a.step.type,
                                        id |-> t.a.step.id, p |-> p])
                    ELSE trace
  /\ op' = [name |-> "take"] @@ OpDefaults
  /\ UNCHANGED <<present, ctx, adminChatIdDefault, humanTopicId, dataIn, loaded, fault,
                 pre, thrown, diverged>>

\* the process p writes the context it has computed
WriteContext(p) ==
  /\ procs[p].stack # <<>>
  /\ Head(procs[p].stack).k = "write"
  /\ ctx' = Written(Head(procs[p].stack).a.ctx, Head(procs[p].stack).a.base, ctx)
  /\ procs' = [procs EXCEPT ![p].stack = Tail(@)]
  /\ op' = [name |-> "write"] @@ OpDefaults
  /\ UNCHANGED <<present, adminChatIdDefault, humanTopicId, dataIn, loaded, fault, pre,
                 trace, thrown, diverged>>

\* the text of the message each process handles
RaceText == <<"hi", "yo">>
RaceTasks(p) ==
  { Mutate("setVariable", [path |-> "a", value |-> Num(1)]),
    Mutate("setVariable", [path |-> "b", value |-> Num(2)]),
    Task("startFlow", [flow |-> "profile"]),
    Task("startTopicFlow", [flow |-> "profile", topicId |-> 7, targetUserId |-> Null,
                            adminChatId |-> 500]),
    Task("completeFlow", <<>>) }
  \cup { Task("handleIncomingMessage", [text |-> RaceText[p]]) }

NextRace ==
  \/ RegisterHuman
  \/ \E p \in Procs : Begin(p, RaceTasks(p))
  \/ \E p \in Procs : TakeTask(p)
  \/ \E p \in Procs : WriteContext(p)

SpecRace == Init /\ [][NextRace]_vars

(***************************************************************************)
(* Properties                                                              *)
(***************************************************************************)
\* the events of the running operation that are of kind e
Events(e) == {i \in 1..Len(trace) : trace[i].e = e}

\* the context persisted just before event i of the operation
RECURSIVE PersistedBefore(_)
PersistedBefore(i) ==
  IF i <= 1 THEN pre
  ELSE IF trace[i - 1].e = "save" THEN trace[i - 1].ctx
  ELSE PersistedBefore(i - 1)

TopicProxied(c) ==
  c.flowInTopic => (c.flowMode /\ c.topicId # Null /\ c.adminChatId # Null)

\* C1: in every persisted context, the ones between two saves of one
\* operation included, flowInTopic implies flowMode, a topicId and an
\* adminChatId.
C1_TopicProxiedAtEverySave ==
  /\ TopicProxied(ctx)
  /\ \A i \in Events("save") : TopicProxied(trace[i].ctx)

\* the weaker statement that the code keeps: the implication holds whenever
\* an operation has returned
C1_TopicProxiedAtReturn == TopicProxied(ctx)

\* C2: whenever an operation has returned, flowMode is false exactly when
\* currentFlow is empty, and then currentStep is 0; an active context names a
\* registered flow.
C2_IdleAsAUnit ==
  /\ (ctx.flowMode = FALSE) <=> (ctx.currentFlow = "")
  /\ ~ctx.flowMode => ctx.currentStep = 0
  /\ ctx.flowMode => ctx.currentFlow \in FlowNames

\* a context that was past step 0 of a flow has become idle
C2_LeftAFlowMidway ==
  /\ pre.flowMode /\ pre.currentStep > 0
  /\ ~ctx.flowMode

IdleFields(c) ==
  /\ ~c.flowMode /\ c.messageForwardingEnabled
  /\ c.currentFlow = "" /\ c.currentStep = 0
  /\ ~c.flowInTopic /\ c.topicId = Null /\ c.adminChatId = Null /\ c.targetUserId = Null

\* C3: startFlow of a registered flow whose step 0 is a Message step with a
\* keyboard, on an existing context in any state: one message with keyboard
\* goes directly to the actor, no other step runs, and the context is
\* Active-Direct at step 0 of that flow with forwarding off.
C3_StartFlowOnKeyboardMessage ==
  ( /\ op.name = "startFlow" /\ present
    /\ op.flow \in FlowNames
    /\ flows[op.flow][1].type = "message"
    /\ HasKeyboard(flows[op.flow][1].keyboardKey) )
  => /\ Cardinality(Events("send")) = 1
     /\ \A i \in Events("send") : trace[i].to = "direct" /\ trace[i].kb
     /\ Cardinality(Events("exec")) = 1
     /\ ctx.flowMode /\ ~ctx.messageForwardingEnabled
     /\ ctx.currentFlow = op.flow /\ ctx.currentStep = 0
     /\ ~ctx.flowInTopic /\ ctx.topicId = Null /\ ctx.adminChatId = Null
     /\ ctx.targetUserId = Null

\* onboarding has been started over a topic-proxied context
C3_StartedOverATopicFlow ==
  /\ op.name = "startFlow" /\ op.flow = "onboarding" /\ present
  /\ pre.flowInTopic /\ pre.currentFlow = "catalog"

\* C4: after completeFlow on an existing context every field is the idle
\* one; and no operation takes a context from active to idle without a call
\* of completeFlow.
C4_CompleteFlowIsTheExit ==
  /\ (op.name = "completeFlow" /\ present) => IdleFields(ctx)
  /\ ((pre.flowMode /\ ~ctx.flowMode) \/ (pre.currentFlow # "" /\ ctx.currentFlow = ""))
       => \E i \in Events("call") : trace[i].name = "completeFlow"

\* completeFlow has ended a topic-proxied flow that carried a target user
C4_CompletedATopicFlow ==
  /\ op.name = "completeFlow" /\ present
  /\ pre.flowInTopic /\ pre.targetUserId # Null /\ ~pre.messageForwardingEnabled

\* C8: every send of step content or of a re-prompt goes into
\* (adminChatId, topicId) of the context persisted at that moment when it is
\* topic-proxied, and directly to the actor when it is not.
C8_SendsFollowTheContext ==
  \A i \in Events("send") :
    IF PersistedBefore(i).flowInTopic
    THEN /\ trace[i].to = "topic"
         /\ trace[i].chat = PersistedBefore(i).adminChatId
         /\ trace[i].topic = PersistedBefore(i).topicId
    ELSE trace[i].to = "direct"

\* a failed validation has been answered in the topic
C8_RepromptedInTheTopic ==
  /\ op.name = "handleTopicMessage"
  /\ \E i \in Events("send") :
       trace[i].to = "topic" /\ trace[i].text = "Quantity must be a number"

Waiting(c) == getNestedProperty(c.data, "_system.waitingForInput")
VarOf(c, path) == getNestedProperty(c.data, path)

\* the context is in a flow, at the wait-input step that armed its wait-state
AtWaitingStep(c) ==
  /\ Truthy(Waiting(c))
  /\ c.flowMode /\ c.currentFlow \in FlowNames
  /\ c.currentStep >= 0 /\ c.currentStep < Len(flows[c.currentFlow])
  /\ Str(flows[c.currentFlow][c.currentStep + 1].id) = Prop(Waiting(c), "stepId")

\* index of the step a step identifier names in a flow
TargetIndex(flowName, stepIdentifier) ==
  IF stepIdentifier.t = "str" THEN FindIndex(flows[flowName], stepIdentifier.s)
  ELSE stepIdentifier.n

\* the operation stored text, then cleared the wait-state
StoredThenCleared(ws, text) ==
  \E i \in Events("save") : \E j \in Events("save") :
    /\ i < j
    /\ VarOf(trace[i].ctx, Prop(ws, "saveToVariable").s) = Str(text)
    /\ Waiting(trace[j].ctx) = JNull

\* after clearing the wait-state the operation moved currentStep to the step
\* named by next and then executed that step
ClearedThenWent(flowName, next) ==
  \E j \in Events("save") : \E k \in Events("save") : \E l \in Events("exec") :
    /\ j < k /\ k < l
    /\ Waiting(trace[j].ctx) = JNull
    /\ trace[k].ctx.currentStep = TargetIndex(flowName, next)
    /\ trace[l].id = flows[flowName][TargetIndex(flowName, next) + 1].id

\* C5: a text that passes the validation of the armed wait-state is stored
\* at saveToVariable, then the wait-state is cleared, then, when the
\* wait-state carries a nextStepId, currentStep is set to that step and the
\* step is executed.
C5_ValidInputStoredClearedAdvanced ==
  ( /\ op.name = "handleIncomingMessage" /\ present
    /\ AtWaitingStep(pre)
    /\ (Truthy(Prop(Waiting(pre), "validation"))
          => validateInput(op.text, Prop(Waiting(pre), "validation"))) )
  => /\ StoredThenCleared(Waiting(pre), op.text)
     /\ Prop(Waiting(pre), "nextStepId") # Undef
          => ClearedThenWent(pre.currentFlow, Prop(Waiting(pre), "nextStepId"))

\* the text fails the validation as the types are specified: text is empty
\* after trimming, number is not a numeral, email does not match the pattern
FailsValidation(text, validation) ==
  \/ Prop(validation, "type") = Str("text") /\ Trim(text) = ""
  \/ Prop(validation, "type") = Str("number") /\ ~IsDecimalLiteral(Trim(text))
  \/ Prop(validation, "type") = Str("email") /\ ~EmailRegexTest(text)

\* C6: a text that fails the validation of the armed wait-state is answered
\* by the configured error text, sent once to the destination of the
\* context, and nothing of the context changes; a validation of an unknown
\* type lets every text pass.
C6_InvalidInputReprompted ==
  /\ ( /\ op.name = "handleIncomingMessage" /\ present
       /\ AtWaitingStep(pre)
       /\ FailsValidation(op.text, Prop(Waiting(pre), "validation")) )
     => /\ Cardinality(Events("send")) = 1
        /\ \A i \in Events("send") :
             /\ Str(trace[i].text) = Prop(Prop(Waiting(pre), "validation"), "errorMessage")
             /\ trace[i].to = IF pre.flowInTopic THEN "topic" ELSE "direct"
        /\ ctx = pre
  /\ ( /\ op.name = "handleIncomingMessage" /\ present
       /\ AtWaitingStep(pre)
       /\ Truthy(Prop(Waiting(pre), "validation"))
       /\ Prop(Prop(Waiting(pre), "validation"), "type")
            \notin {Str("text"), Str("number"), Str("email")} )
     => StoredThenCleared(Waiting(pre), op.text)

\* the route the priority order gives a payload
RouteByPriority(payload) ==
  IF payload \in DOMAIN callbackActions THEN "registry"
  ELSE IF StartsWith(payload, "dc_") THEN "dynamic"
  ELSE IF JSONparse(payload).ok THEN "json"
  ELSE "keyboard"

\* C7: a payload is handled by exactly one route, the first that applies of
\* registry, 'dc_' prefix, JSON, keyboard fallback; the keyboard fallback has
\* no effect on a payload that an earlier route took.
C7_ExactlyOneRoute ==
  (op.name = "handleIncomingCallback" /\ present)
  => /\ Cardinality(Events("route")) = 1
     /\ \A i \in Events("route") : trace[i].route = RouteByPriority(op.payload)
     /\ Events("keyboard") # {} => RouteByPriority(op.payload) = "keyboard"

\* the DynamicCallback steps of a flow
DynamicCallbackSteps(flowName) ==
  {i \in 1..Len(flows[flowName]) : flows[flowName][i].type = "dynamic_callback"}

\* the step of a flow with a given id
StepOf(flowName, id) ==
  flows[flowName][FindIndex(flows[flowName], id) + 1]

\* C9: the payload generated for the button with value v of a
\* DynamicCallback step S is <prefix of S>_<v>; and that payload, passed back
\* while the flow is active, is attributed to S and stores v at
\* S.saveToVariable.
C9_DynamicCallbackRoundTrip ==
  /\ \A i \in Events("exec") :
       (present /\ trace[i].type = "dynamic_callback")
       => \E j \in Events("send") :
            /\ j > i
            /\ trace[j].payloads =
                 [k \in 1..Len(ButtonValues) |->
                    PrefixOf(StepOf(PersistedBefore(i).currentFlow, trace[i].id))
                      \o "_" \o ButtonValues[k]]
  /\ (op.name = "handleIncomingCallback" /\ present
        /\ pre.flowMode /\ pre.currentFlow \in FlowNames)
     => \A n \in DynamicCallbackSteps(pre.currentFlow) :
          \A k \in 1..Len(ButtonValues) :
            op.payload = PrefixOf(flows[pre.currentFlow][n]) \o "_" \o ButtonValues[k]
            => /\ \E i \in Events("matched") :
                    trace[i].id = flows[pre.currentFlow][n].id
               /\ \E i \in Events("save") :
                    VarOf(trace[i].ctx, flows[pre.currentFlow][n].saveToVariable)
                      = Str(ButtonValues[k])

\* the calls of startFlow, goToStep and completeFlow after event i
CallsAfter(i) == {k \in Events("call") : k > i}

\* C10: after a payload is matched to a DynamicCallback step the first
\* transition is startFlow(nextFlow) if the step declares nextFlow, else
\* goToStep(nextStepId) if it declares nextStepId, else completeFlow and
\* nothing more; a 'dc_' payload that matches no step, or comes with no
\* active flow, changes nothing and starts no transition.
C10_OneTransitionByPriority ==
  /\ \A i \in Events("matched") :
       LET S == StepOf(pre.currentFlow, trace[i].id)
           first == trace[MinOf(CallsAfter(i))]
       IN /\ CallsAfter(i) # {}
          /\ IF S.nextFlow # ""
             THEN first.name = "startFlow" /\ first.flow = S.nextFlow
             ELSE IF S.nextStepId # Undef
             THEN first.name = "goToStep" /\ first.id = S.nextStepId
             ELSE first.name = "completeFlow" /\ Cardinality(CallsAfter(i)) = 1
  /\ ( /\ op.name = "handleIncomingCallback" /\ present
       /\ RouteByPriority(op.payload) = "dynamic"
       /\ Events("matched") = {} )
     => ctx = pre /\ Events("call") = {}

\* the context is in a flow, positioned on a wait-input step
OnWaitInputStep(c) ==
  /\ c.flowMode /\ c.currentFlow \in FlowNames
  /\ c.currentStep >= 0 /\ c.currentStep < Len(flows[c.currentFlow])
  /\ flows[c.currentFlow][c.currentStep + 1].type = "wait_input"

\* the last step the operation executed is the one the context is positioned on
ExecutedCurrentStep ==
  /\ Events("exec") # {}
  /\ ctx.currentFlow \in FlowNames
  /\ ctx.currentStep >= 0 /\ ctx.currentStep < Len(flows[ctx.currentFlow])
  /\ trace[MaxOf(Events("exec"))].id = flows[ctx.currentFlow][ctx.currentStep + 1].id

\* C13: whenever an operation has returned, the wait-state marker is present
\* only if the context is in a flow, positioned on the wait-input step that
\* armed it; and a wait-input step that has just been executed has armed it.
C13_WaitStateExactlyWhileWaiting ==
  /\ Truthy(Waiting(ctx)) => AtWaitingStep(ctx)
  /\ (present /\ OnWaitInputStep(ctx) /\ ExecutedCurrentStep) => AtWaitingStep(ctx)

\* the admin chat id no source provides: no parameter, no interpreter-level
\* default, none in the context
NoAdminChatId ==
  op.adminChatId = Null /\ adminChatIdDefault = Null /\ pre.adminChatId = Null

\* C15: startTopicFlow without a resolvable admin chat id, or without a
\* context of the admin, or for an unregistered flow leaves the persisted
\* context as it was, saves nothing, sends nothing and executes no step.
C15_StartTopicFlowRefused ==
  ( /\ op.name = "startTopicFlow"
    /\ (~present \/ op.flow \notin FlowNames \/ NoAdminChatId) )
  => /\ ctx = pre
     /\ Events("save") = {} /\ Events("send") = {} /\ Events("exec") = {}
     /\ ~thrown

\* a registered flow was refused on an existing context for lack of an admin
\* chat id
C15_RefusedForLackOfAdminChat ==
  /\ op.name = "startTopicFlow" /\ present /\ op.flow \in FlowNames
  /\ NoAdminChatId
  /\ pre.flowMode

\* the admin chat id startTopicFlow is to store: parameter, else default,
\* else the one of the context
ExpectedAdminChatId ==
  IF op.adminChatId # Null THEN op.adminChatId
  ELSE IF adminChatIdDefault # Null THEN adminChatIdDefault
  ELSE pre.adminChatId

\* the context persisted when the first step of the operation was executed
AtFirstStep == PersistedBefore(MinOf(Events("exec")))

\* C16: startTopicFlow of a registered flow on an existing context with a
\* resolvable admin chat id: when step 0 is executed the persisted context is
\* in flow mode with forwarding off, topic-proxied in the given topic, at
\* step 0 of the flow, with the admin chat id taken from the parameter, else
\* the default, else the context; a given targetUserId is in the context
\* field and in data.targetUserId.
C16_StartTopicFlowEntersTopicMode ==
  ( /\ op.name = "startTopicFlow" /\ present /\ op.flow \in FlowNames
    /\ ~NoAdminChatId )
  => /\ Events("exec") # {}
     /\ AtFirstStep.flowMode /\ ~AtFirstStep.messageForwardingEnabled
     /\ AtFirstStep.flowInTopic /\ AtFirstStep.topicId = op.topicId
     /\ AtFirstStep.currentFlow = op.flow /\ AtFirstStep.currentStep = 0
     /\ AtFirstStep.adminChatId = ExpectedAdminChatId
     /\ op.targetUserId # Null
          => /\ AtFirstStep.targetUserId = op.targetUserId
             /\ VarOf(AtFirstStep, "targetUserId") = Num(op.targetUserId)

\* the parameter has won over a different interpreter-level default
C16_ParameterOverDefault ==
  /\ op.name = "startTopicFlow" /\ present /\ op.flow \in FlowNames
  /\ op.adminChatId # Null /\ adminChatIdDefault # Null
  /\ op.adminChatId # adminChatIdDefault
  /\ op.targetUserId # Null

StepById(id) ==
  LET f == CHOOSE f \in FlowNames : FindIndex(flows[f], id) >= 0
  IN StepOf(f, id)

\* the call that takes the true or the false branch of a Condition step
BranchCall(step, result) ==
  LET flow == IF result THEN step.trueFlow ELSE step.falseFlow
      next == IF result THEN step.trueStep ELSE step.falseStep
  IN IF flow # "" THEN CallEvent("startFlow", flow, Undef)
     ELSE CallEvent("goToStep", "", next)

\* the event that follows event i is the call of that branch
TakesBranch(i, result) ==
  i < Len(trace) /\ trace[i + 1] = BranchCall(StepById(trace[i].id), result)

\* the Condition steps that carry the expression of the shipped flow
RoleConditionSteps == {"onboarding_role_condition", "by_role", "by_role_flow"}

\* C11: a Condition step with the expression
\* globalObject.onboarding.role === 'offer' takes its true branch when
\* data.onboarding.role is 'offer' at that moment, and its false branch with
\* any other stored value.
C11_ConditionFollowsTheData ==
  \A i \in Events("exec") :
    (present /\ trace[i].id \in RoleConditionSteps)
    => TakesBranch(i, VarOf(PersistedBefore(i), "onboarding.role") = Str("offer"))

\* the Condition steps whose expression fails: it does not parse, or it
\* dereferences a property of a value that is not there
FailingConditionSteps == {"malformed", "missing"}

C14_GoToStepResolvesOrRefuses ==
  (op.name = "goToStep" /\ present)
  => /\ ~thrown
     /\ IF pre.currentFlow = ""
           \/ TargetIndex(pre.currentFlow, op.id) < 0
           \/ TargetIndex(pre.currentFlow, op.id) >= Len(flows[pre.currentFlow])
        THEN ctx = pre /\ Events("exec") = {} /\ Events("save") = {}
        ELSE /\ Events("exec") # {}
             /\ trace[MinOf(Events("exec"))].id
                  = flows[pre.currentFlow][TargetIndex(pre.currentFlow, op.id) + 1].id
             /\ AtFirstStep.currentStep = TargetIndex(pre.currentFlow, op.id)

\* C17: after enterFlowMode or exitFlowMode on an existing context,
\* whatever was called before, messageForwardingEnabled is the negation of
\* flowMode, and the operation has persisted the context once, with both
\* fields changed in that write.
C17_OneWriteSetsBothFields ==
  (op.name \in {"enterFlowMode", "exitFlowMode"} /\ present)
  => /\ ctx.flowMode = (op.name = "enterFlowMode")
     /\ ctx.messageForwardingEnabled = ~ctx.flowMode
     /\ Cardinality(Events("save")) = 1
     /\ \A i \in Events("save") : trace[i].ctx = ctx

\* exitFlowMode has run on a context in flow mode whose forwarding had been
\* switched on again
C17_ExitedWithForwardingOn ==
  /\ op.name = "exitFlowMode" /\ present
  /\ pre.flowMode /\ pre.messageForwardingEnabled

\* the keys of p are the first keys of q
IsKeyPrefix(p, q) ==
  Len(Split(p)) <= Len(Split(q)) /\ SubSeq(Split(q), 1, Len(Split(p))) = Split(p)

\* C19: after setVariable(actor, p, v) on an existing context getVariable of
\* p returns v, whatever data held before, and getVariable of every path
\* that is neither a prefix nor an extension of p returns what it returned
\* before.
C19_VariableRoundTrip ==
  (op.name = "setVariable" /\ present)
  => /\ ~thrown
     /\ VarOf(ctx, op.path) = op.value
     /\ \A q \in VariablePaths :
          (~IsKeyPrefix(q, op.path) /\ ~IsKeyPrefix(op.path, q))
          => VarOf(ctx, q) = VarOf(pre, q)

\* the operation handed the message to FlowEngine.handleIncomingMessage
HandedToTheEngine ==
  \E i \in Events("route") : trace[i].route = "flowEngine"

\* C18: a text message the actor sends in the private chat while flowMode is
\* true goes to FlowEngine.handleIncomingMessage and is not forwarded, even
\* when the flow has switched forwarding on again; once the context is out of
\* flow mode a text message of an actor with a topic is forwarded to that
\* topic, once, and does not reach the engine.
C18_FlowModeSilencesForwarding ==
  (op.name = "processMessage" /\ present /\ op.text # "")
  => IF pre.flowMode
     THEN HandedToTheEngine /\ Events("forward") = {}
     ELSE /\ ~HandedToTheEngine
          /\ humanTopicId # 0
               => /\ Cardinality(Events("forward")) = 1
                  /\ \A i \in Events("forward") : trace[i].topic = humanTopicId

\* a text arrived in a flow that had switched forwarding on, from an actor
\* with a topic
C18_TextInAFlowThatForwards ==
  /\ op.name = "processMessage" /\ present /\ op.text # ""
  /\ pre.flowMode /\ pre.messageForwardingEnabled
  /\ humanTopicId # 0

\* the calls of startFlow with a name that is not in the registry
UnknownFlowCalls ==
  {i \in Events("call") : trace[i].name = "startFlow" /\ trace[i].flow \notin FlowNames}

\* C21: a call of startFlow with a name that is not in the flow registry,
\* made directly or from a Flow step, a Condition branch or a callback
\* action, is the end of the operation: nothing is saved, sent or executed
\* after it, the persisted context is the one it found, and nothing is
\* thrown; called directly it leaves the context as it was before.
C21_UnknownFlowIsIgnored ==
  /\ \A i \in UnknownFlowCalls :
       i = Len(trace) /\ ctx = PersistedBefore(i) /\ ~thrown
  /\ (op.name = "startFlow" /\ op.flow \notin FlowNames)
       => ctx = pre /\ Len(trace) = 1

\* a Flow step has named an unregistered flow in a topic-proxied context
C21_FlowStepToNowhereInATopic ==
  /\ op.name = "goToStep" /\ op.id = Str("to_nowhere") /\ present
  /\ pre.flowInTopic
  /\ UnknownFlowCalls # {}

\* C22: handleIncomingMessage for an actor with no armed wait-state, in any
\* flow state, does nothing: the persisted context is unchanged, nothing is
\* saved, sent or executed, no transition is made and nothing is thrown.
C22_TextNobodyWaitsForIsDropped ==
  (op.name = "handleIncomingMessage" /\ ~Truthy(Waiting(pre)))
  => ctx = pre /\ trace = <<>> /\ ~thrown

\* a text arrived in a topic-proxied flow whose wait-state had been cleared
C22_TextAfterTheAnswer ==
  /\ op.name = "handleIncomingMessage" /\ present
  /\ pre.flowMode /\ pre.flowInTopic
  /\ Waiting(pre) = JNull

\* C23: handleTopicMessage and handleTopicCallback for an admin whose
\* context is missing or is not topic-proxied do nothing, an armed
\* wait-state notwithstanding: the persisted context is unchanged, nothing is
\* saved, sent or executed and nothing is thrown.
C23_TopicEventsNeedATopicFlow ==
  ( /\ op.name \in {"handleTopicMessage", "handleTopicCallback"}
    /\ (~present \/ ~pre.flowInTopic) )
  => ctx = pre /\ trace = <<>> /\ ~thrown

\* a topic message arrived for an admin who is waited for in a direct flow
C23_TopicTextForADirectWait ==
  /\ op.name = "handleTopicMessage" /\ present
  /\ pre.flowMode /\ ~pre.flowInTopic
  /\ Truthy(Waiting(pre))
  /\ validateInput(op.text, Prop(Waiting(pre), "validation"))

\* the step a context is positioned on; a step of no type when it is
\* positioned on none
CurrentStepOf(c) ==
  IF c.currentFlow \in FlowNames /\ c.currentStep >= 0
     /\ c.currentStep < Len(flows[c.currentFlow])
  THEN flows[c.currentFlow][c.currentStep + 1]
  ELSE StepDefaults @@ [type |-> "none"]

\* the context is positioned on a Message step that carries a keyboard
OnKeyboardMessage(c) ==
  CurrentStepOf(c).type = "message" /\ HasKeyboard(CurrentStepOf(c).keyboardKey)

\* C24: a payload that is no registry key, has no 'dc_' prefix and is not
\* JSON.  On a Message step with a keyboard it is stored under data.keyboard
\* and the engine then goes to the step's nextStepId when the step declares
\* one, and makes no transition when it declares none; on any other
\* position the callback changes nothing, sends nothing and makes no
\* transition.
C24_KeyboardFallback ==
  (op.name = "handleIncomingCallback" /\ present
     /\ RouteByPriority(op.payload) = "keyboard")
  => IF OnKeyboardMessage(pre)
     THEN /\ \E i \in Events("save") :
               VarOf(trace[i].ctx, "keyboard." \o op.payload) = Str(op.payload)
          /\ IF CurrentStepOf(pre).nextStepId # Undef
             THEN \E i \in Events("save") : \E j \in Events("call") :
                    /\ i < j
                    /\ trace[j] = CallEvent("goToStep", "", CurrentStepOf(pre).nextStepId)
             ELSE Events("call") = {}
     ELSE /\ ctx = pre
          /\ Events("save") = {} /\ Events("send") = {}
          /\ Events("call") = {} /\ Events("exec") = {}

\* the Message step executed at event i
MessageStepAt(i) == StepOf(PersistedBefore(i).currentFlow, trace[i].id)

\* event i exists and is a call of goToStep(next), or of completeFlow when
\* next is undefined
AdvancesAt(i, next) ==
  /\ i <= Len(trace)
  /\ trace[i] = IF next # Undef THEN CallEvent("goToStep", "", next)
                 ELSE CallEvent("completeFlow", "", Undef)

\* C25: the execution of a Message step sends the step's text, once.  With
\* no keyboard the next thing the engine does is goToStep(nextStepId) when
\* the step declares a nextStepId, a string id or an index, index 0
\* included, and completeFlow when it declares none; with a keyboard the
\* engine does nothing after the send.
C25_MessageStepSendsThenAdvances ==
  \A i \in Events("exec") :
    (present /\ trace[i].type = "message")
    => /\ i < Len(trace)
       /\ trace[i + 1].e = "send" /\ trace[i + 1].text = MessageStepAt(i).text
       /\ IF HasKeyboard(MessageStepAt(i).keyboardKey)
          THEN i + 1 = Len(trace)
          ELSE AdvancesAt(i + 2, MessageStepAt(i).nextStepId)

\* the actor is in a flow, positioned on a Delay step that declares a
\* nextStepId
OnDelayStep ==
  /\ present /\ ctx.flowMode
  /\ CurrentStepOf(ctx).type = "delay"
  /\ CurrentStepOf(ctx).nextStepId # Undef

\* C26: a flow that is positioned on a Delay step with a nextStepId does not
\* stay there forever.
C26_DelayEventuallyProceeds == OnDelayStep ~> ~OnDelayStep

\* the invocations of a custom handler that throws
ThrowingInvocations ==
  {h \in Events("handler") : customHandlers[trace[h].name].kind = "throw"}

\* event i is the call c, and the last event when c is no call
FollowedBy(i, c) ==
  IF c.e = "call" THEN i <= Len(trace) /\ trace[i] = c ELSE i = Len(trace) + 1

\* the transition a Handler step or a registry action declares
DeclaredTransition(nextFlow, nextStepId) ==
  IF nextFlow # "" THEN CallEvent("startFlow", nextFlow, Undef)
  ELSE IF nextStepId # Undef THEN CallEvent("goToStep", "", nextStepId)
  ELSE [e |-> "none"]

\* C27: when the handler of a Handler step or of a registry 'handler'
\* action throws, the operation throws nothing, and the first thing the
\* engine does after the invocation, with no write in between, is the
\* declared transition: goToStep(nextStepId) for the step;
\* startFlow(nextFlow), else goToStep(nextStepId), for the action.
C27_ThrowingHandlerIsContained ==
  /\ ~thrown
  /\ \A h \in ThrowingInvocations :
       /\ (h > 1 /\ trace[h - 1].e = "exec" /\ trace[h - 1].type = "handler")
            => FollowedBy(h + 1,
                 DeclaredTransition("",
                   StepOf(PersistedBefore(h).currentFlow, trace[h - 1].id).nextStepId))
       /\ (h > 1 /\ trace[h - 1].e = "route")
            => FollowedBy(h + 1,
                 DeclaredTransition(callbackActions[op.payload].nextFlow,
                                    callbackActions[op.payload].nextStepId))

\* the handler a step names: handlerName of a Handler step, handler of a
\* Dynamic or DynamicCallback step
HandlerNamedBy(step) ==
  IF step.type = "handler" THEN step.handlerName ELSE step.handler

\* the executions of a step that names a handler that is not registered
GhostExecutions ==
  {i \in Events("exec") :
     /\ trace[i].type \in {"handler", "dynamic", "dynamic_callback"}
     /\ HandlerNamedBy(StepOf(PersistedBefore(i).currentFlow, trace[i].id))
          \notin DOMAIN customHandlers}

\* the position of a conversation
Position(c) == <<c.currentFlow, c.currentStep, c.flowMode>>

\* C28: a Handler, Dynamic or DynamicCallback step, or a registry 'handler'
\* action, that names a handler that is not registered is a no-op: no
\* goToStep, startFlow or completeFlow follows, and currentFlow, currentStep
\* and flowMode stay as they were when the step or the action was reached.
C28_UnknownHandlerIsANoOp ==
  /\ \A i \in GhostExecutions :
       /\ {j \in Events("call") : j > i} = {}
       /\ Position(ctx) = Position(PersistedBefore(i))
  /\ ( /\ op.name = "handleIncomingCallback" /\ present
       /\ op.payload \in DOMAIN callbackActions
       /\ callbackActions[op.payload].action = "handler"
       /\ callbackActions[op.payload].handlerName \notin DOMAIN customHandlers )
     => Events("call") = {} /\ Position(ctx) = Position(pre)

\* a store write failed during the operation
WriteFailed == Events("fail") # {}

\* C29: no operation of the engine or of the context manager ends with an
\* exception when a store write fails while it runs.
C29_NoExceptionEscapes == WriteFailed => ~thrown

\* flowInTopic implies flowMode; flowMode is false exactly when currentFlow
\* is empty
StateInvariants(c) ==
  /\ c.flowInTopic => c.flowMode
  /\ (c.flowMode = FALSE) <=> (c.currentFlow = "")

\* C30: when a store write fails during an operation, the processing of the
\* event ends there, and the persisted context satisfies the state
\* invariants.
C30_FailedWriteLeavesNoHalfState ==
  WriteFailed
  => /\ MinOf(Events("fail")) = Len(trace)
     /\ StateInvariants(ctx)

\* the two stored copies of the target agree: data.targetUserId holds the
\* number of the context field, or holds nothing when the field is null
TargetsAgree(c) ==
  IF c.targetUserId = Null THEN VarOf(c, "targetUserId") \in {Undef, JNull}
  ELSE VarOf(c, "targetUserId") = Num(c.targetUserId)

\* C40: while a topic-proxied flow is active, data.targetUserId equals the
\* context field targetUserId, also after a startTopicFlow without
\* targetUserId that follows a topic flow which had one.
C40_TargetCopiesAgree ==
  (present /\ ctx.flowInTopic) => TargetsAgree(ctx)

\* a step is executed a second time on the persisted context it was executed
\* on before: what follows the second execution is what followed the first
Revisits ==
  \E i, j \in Events("exec") :
    /\ i < j
    /\ trace[i].id = trace[j].id
    /\ PersistedBefore(i) = PersistedBefore(j)

\* C35: the chain of steps an operation executes is finite: it executes no
\* step twice on the same persisted context and stays within MaxChain step
\* executions.
C35_ChainOfStepsEnds == ~Revisits /\ ~diverged

\* the executions of a Dynamic step whose handler is registered
DynamicExecutions ==
  {i \in Events("exec") :
     /\ present /\ trace[i].type = "dynamic"
     /\ StepOf(PersistedBefore(i).currentFlow, trace[i].id).handler
          \in DOMAIN customHandlers}

\* the transition of a Dynamic step: goToStep(nextStepId) when the step
\* declares a non-empty nextStepId, completeFlow otherwise
DynamicTransition(step) ==
  IF step.nextStepId \notin {Undef, Str("")}
  THEN CallEvent("goToStep", "", step.nextStepId)
  ELSE CallEvent("completeFlow", "", Undef)

\* event i is the send of a Dynamic step's text to the destination of the
\* context c, with the keyboard exactly when the step names one
SendsDynamicText(i, c, step) ==
  /\ i <= Len(trace) /\ trace[i].e = "send"
  /\ trace[i].text = HandlerText(step.handler)
  /\ trace[i].kb = HasKeyboard(step.keyboardKey)
  /\ trace[i].to = IF SendsToTopic(c) THEN "topic" ELSE "direct"

\* C33: a Dynamic step invokes its handler; when the handler returns a text
\* the engine sends it once, with the keyboard when keyboardKey is given, to
\* the destination of the context, and then goes to nextStepId when the step
\* declares a non-empty one and completes the flow otherwise; when the
\* handler throws nothing is sent and the same transition follows.
C33_DynamicStepSendsThenMoves ==
  \A i \in DynamicExecutions :
    LET step == StepOf(PersistedBefore(i).currentFlow, trace[i].id)
    IN /\ i < Len(trace) /\ trace[i + 1].e = "handler"
       /\ IF customHandlers[step.handler].kind = "throw"
          THEN FollowedBy(i + 2, DynamicTransition(step))
          ELSE /\ SendsDynamicText(i + 2, PersistedBefore(i), step)
               /\ FollowedBy(i + 3, DynamicTransition(step))

\* the step has put buttons before the actor
OffersButtons(step) ==
  \/ step.type \in {"message", "dynamic"} /\ HasKeyboard(step.keyboardKey)
  \/ step.type \in {"callback", "dynamic_callback"}

\* the flow is active on a step that is no Handler step without nextStepId
ActiveOnEngineStep(c) ==
  /\ c.flowMode
  /\ ~(CurrentStepOf(c).type = "handler" /\ CurrentStepOf(c).nextStepId = Undef)

\* C36: when an operation has returned and the flow is active on a step other
\* than a Handler step without nextStepId, a wait-state is armed or the
\* current step has offered buttons.
C36_ActiveFlowAwaitsSomething ==
  (present /\ ActiveOnEngineStep(ctx))
  => (Truthy(Waiting(ctx)) \/ OffersButtons(CurrentStepOf(ctx)))

\* the payload is taken by a route that stores a value and then makes the
\* transition it carries: a registry set_variable or handler action, a JSON
\* set_variable action, or a button of a Callback step (a JSON object with
\* no known action)
CarriesTransition(payload) ==
  \/ /\ RouteByPriority(payload) = "registry"
     /\ callbackActions[payload].action \in {"set_variable", "handler"}
  \/ /\ RouteByPriority(payload) = "json"
     /\ JSONparse(payload).v.t = "obj"
     /\ Prop(JSONparse(payload).v, "action") \in {Str("set_variable"), Undef}

\* what such a payload carries: the variable and its value, nextFlow and
\* nextStepId
Carried(payload) ==
  IF RouteByPriority(payload) = "registry"
  THEN LET cfg == callbackActions[payload]
       IN [variable |-> OptStr(cfg.variable), value |-> cfg.value,
           nextFlow |-> cfg.nextFlow, nextStepId |-> cfg.nextStepId]
  ELSE LET data == JSONparse(payload).v
           nextFlow == Prop(data, "nextFlow")
       IN [variable |-> IF Prop(data, "action") = Undef
                        THEN Prop(data, "saveToVariable") ELSE Prop(data, "variable"),
           value |-> Prop(data, "value"),
           nextFlow |-> IF nextFlow = Undef THEN "" ELSE nextFlow.s,
           nextStepId |-> Prop(data, "nextStepId")]

\* the first call the operation makes; past the end when it makes none
FirstCall ==
  IF Events("call") = {} THEN Len(trace) + 1 ELSE MinOf(Events("call"))

\* C34: a callback that carries a variable and a transition stores the value
\* at the variable when one is declared, with one write, and then starts
\* nextFlow when it carries one, else goes to nextStepId when it carries
\* one, else makes no transition; when it carries both, nextStepId is
\* neither gone to nor executed.
C34_ButtonStoresThenMoves ==
  (op.name = "handleIncomingCallback" /\ present /\ CarriesTransition(op.payload))
  => LET c == Carried(op.payload)
         writes == {i \in Events("save") : i < FirstCall}
     IN /\ IF c.variable # Undef
           THEN /\ Cardinality(writes) = 1
                /\ \A i \in writes : VarOf(trace[i].ctx, c.variable.s) = c.value
           ELSE writes = {}
        /\ FollowedBy(FirstCall, DeclaredTransition(c.nextFlow, c.nextStepId))
        /\ (c.nextFlow # "" /\ c.nextStepId # Undef)
             => /\ \A j \in Events("call") :
                     trace[j] # CallEvent("goToStep", "", c.nextStepId)
                /\ \A j \in Events("exec") : Str(trace[j].id) # c.nextStepId

\* C39: getOrCreateContext leaves a persisted context as it is, also when
\* its read of the store fails.
C39_GetOrCreateKeepsTheContext ==
  (op.name = "getOrCreateContext" /\ present) => ctx = pre

\* what data_in carries for the field k of the context: the property k of
\* the object under "context", or of the parsed object itself; undefined
\* when data_in is empty or is no JSON
StoredField(k) ==
  LET root == IF dataIn.t = "json" THEN dataIn.v ELSE Undef
      holder == IF Prop(root, "context").t = "obj" THEN Prop(root, "context") ELSE root
  IN Prop(holder, k)

\* a stored JSON value as a field of the context
FieldOf(v) ==
  CASE v.t = "str" -> v.s
    [] v.t = "num" -> v.n
    [] v.t = "bool" -> v.b
    [] v.t = "array" -> <<>>
    [] OTHER -> v

\* C31: getContext returns not-found when the humans row does not exist; for
\* an existing row it returns a context in which every field that data_in
\* carries has the stored value and every other field has its default,
\* whether data_in is empty, malformed, no object or short of fields.
C31_GetContextFillsInDefaults ==
  (op.name = "getContext")
  => IF ~present THEN loaded = NotFound
     ELSE /\ loaded.found
          /\ \A k \in ContextFields :
               loaded.context[k] = IF Nullish(StoredField(k)) THEN DefaultContext[k]
                                   ELSE FieldOf(StoredField(k))

\* getContext has built a context from a data_in that carries the flags and
\* lacks the flow pointer
C31_LoadedAPartOfAContext ==
  /\ op.name = "getContext" /\ present
  /\ dataIn.t = "json"
  /\ StoredField("messageForwardingEnabled") = Bool(FALSE)
  /\ StoredField("topicId") = Num(7)
  /\ StoredField("currentFlow") = Undef
  /\ StoredField("flowMode") = Undef
  /\ loaded.context.currentFlow = "" /\ ~loaded.context.messageForwardingEnabled

\* the process p is about to write, and this step is its write
Writes(p) ==
  /\ procs[p].stack # <<>>
  /\ Head(procs[p].stack).k = "write"
  /\ procs'[p].stack = Tail(procs[p].stack)

\* C32: a write replaces the whole persisted context by the context the
\* writer made of the one it read, whatever the store holds by then: no write
\* is refused or merged with what another operation has written in between.
C32_LastWriterWins ==
  [][\A p \in Procs : Writes(p) => ctx' = Head(procs[p].stack).a.ctx]_vars

\* two setVariable calls on different paths have run at the same time and
\* one of the two variables is not set
C32_LostUpdate ==
  /\ AllDone
  /\ procs[1].run.k = "mutate" /\ procs[1].run.a.path = "a"
  /\ procs[2].run.k = "mutate" /\ procs[2].run.a.path = "b"
  /\ VarOf(pre, "a") = Undef /\ VarOf(pre, "b") = Undef
  /\ (VarOf(ctx, "a") = Undef) # (VarOf(ctx, "b") = Undef)

\* idle, active in the private chat, or active in a topic
LegalState(c) ==
  \/ /\ ~c.flowMode /\ c.currentFlow = "" /\ c.currentStep = 0 /\ ~c.flowInTopic
     /\ c.topicId = Null /\ c.adminChatId = Null /\ c.targetUserId = Null
  \/ c.flowMode /\ c.currentFlow # "" /\ ~c.flowInTopic
  \/ c.flowMode /\ c.flowInTopic /\ c.topicId # Null /\ c.adminChatId # Null

\* C37: when two operations that ran at the same time have both finished,
\* the persisted context is idle, active in the private chat or active in a
\* topic.
C37_RacesEndInALegalState ==
  (AllDone /\ procs[2].ran) => LegalState(ctx)

\* the executions of the step the wait-state armed when the round began
\* leads to
AnswerExecutions ==
  {i \in Events("exec") : Str(trace[i].id) = Prop(Waiting(pre), "nextStepId")}

\* C38: of two messages handled at the same time at most one consumes the
\* wait-state: the step at its nextStepId is executed at most once, and when
\* both are done saveToVariable holds the text of the message that executed
\* it.
C38_OneMessageConsumesTheWaitState ==
  (procs[1].run.k = "handleIncomingMessage" /\ procs[2].run.k = "handleIncomingMessage")
  => /\ Cardinality(AnswerExecutions) <= 1
     /\ AllDone
          => \A i \in AnswerExecutions :
               VarOf(ctx, Prop(Waiting(pre), "saveToVariable").s)
                 = Str(RaceText[trace[i].p])

====
